---- MODULE Spec2Model ----
(***************************************************************************)
(* The bump-and-restore risk engine of QuantMath: MarketData               *)
(* (risk/marketdata.rs), the prefetch cache PricingContextPrefetch with    *)
(* its SavedPrefetch ledger (risk/cache.rs) and the SelfPricer facade      *)
(* (pricers/selfpricer.rs).                                                *)
(*                                                                         *)
(* Market-data artifacts (spots, curves, dividend streams, vol surfaces)   *)
(* are abstracted to naturals; a bump adds its size.  A forward is the     *)
(* record of the inputs EquityForward::new is given, a decorated vol       *)
(* surface the record of the inputs the decorators are given.              *)
(***************************************************************************)
EXTENDS Integers, Sequences, FiniteSets, TLC

\* Total number of bump calls of one run.
MaxBumps == 2

InstIds == {"A", "B"}
CreditIds == {"X", "Y"}
\* Ids a caller may pass: all kinds share one namespace of strings.
Ids == InstIds \cup CreditIds
\* Sizes of the bumps: 0 is a bump whose apply is the identity.
BumpSizes == {0, 1}
\* Replacement discount dates.
Dates == {1, 2}
\* The spot dates a BumpTime moves to.
BumpTimes == {1, 2}

\* Option<T> as a set of at most one element.
None == {}
Some(x) == {x}

\* HashMap<String, T> as a function on the set of its keys.
EmptyMap == [k \in {} |-> 0]
MapInsert(m, k, v) == [x \in (DOMAIN m) \cup {k} |-> IF x = k THEN v ELSE m[x]]

\* A &Saveable: a ledger with its dynamic type, and as_any().downcast_ref.
Saveable(type, ledger) == [type |-> type, ledger |-> ledger]
downcast_ref(any_saved, type) ==
    IF any_saved.type = type THEN Some(any_saved.ledger) ELSE None

\* Result<bool, qm::Error> and Result<T, qm::Error>.
Ok(v) == [ok |-> TRUE, val |-> Some(v), err |-> <<>>]
Err(msg) == [ok |-> FALSE, val |-> None, err |-> msg]
Val(r) == CHOOSE v \in r.val : TRUE

----------------------------------------------------------------------------
(* External collaborators, modelled from their consumed interface.         *)

\* Bump<T>::apply: additive shift of the abstract value.
BumpApply(bump, old) == old + bump

\* EquityForward::new: the forward is determined by exactly its inputs.
EquityForward_new(spot_date, spot, settlement, yield_curve, borrow, divs, high_water_mark) ==
    [spot_date |-> spot_date, spot |-> spot, settlement |-> settlement,
     yield_curve |-> yield_curve, borrow |-> borrow, divs |-> divs,
     hwm |-> high_water_mark]

\* instrument.vol_time_dynamics().modify / vol_forward_dynamics().modify:
\* a sticky-strike surface ignores the forward, a sticky-delta one keeps it.
VolDecorate(instrument, vol, spot_date, forward) ==
    [surface |-> vol, spot_date |-> spot_date,
     forward |-> IF instrument.vol_forward_dynamics = "StickyDelta"
                 THEN Some(forward) ELSE None]

----------------------------------------------------------------------------
(* risk/marketdata.rs                                                      *)

find_market_data(id, collection, item) ==
    IF id \in DOMAIN collection
    THEN Ok(collection[id])
    ELSE Err(<<item, "not found:", id>>)

\* #[derive(Clone)] on MarketData: the copy is a new object, named obj, with
\* the tables of the original.  (The field obj of a market data is the
\* identity of the object: two names with one obj are one object.)
MarketData_clone(md, obj) == [md EXCEPT !.obj = obj]

\* impl PricingContext for MarketData
MarketData_spot_date(md) == md.spot_date

MarketData_discount_date(md) == md.discount_date

MarketData_yield_curve(md, credit_id) ==
    find_market_data(credit_id, md.yield_curves, "Yield curve")

MarketData_spot(md, id) == find_market_data(id, md.spots, "Spot")

MarketData_correlation(md) == Err(<<"Correlation not implemented">>)

MarketData_forward_curve_YieldCurveFirst(md, instrument, high_water_mark) ==
    LET id == instrument.id
        spot == find_market_data(id, md.spots, "Spot")
        divs == find_market_data(id, md.dividends, "Dividends")
        borrow == find_market_data(id, md.borrow_curves, "Borrow curve")
        yield_curve == find_market_data(instrument.credit_id, md.yield_curves,
                                        "Yield curve for forward")
    IN  IF ~yield_curve.ok THEN yield_curve
        ELSE IF ~spot.ok THEN spot
        ELSE IF ~divs.ok THEN divs
        ELSE IF ~borrow.ok THEN borrow
        ELSE Ok(EquityForward_new(md.spot_date, Val(spot),
                                  instrument.settlement, Val(yield_curve),
                                  Val(borrow), Val(divs), high_water_mark))

MarketData_forward_curve(md, instrument, high_water_mark) ==
    LET id == instrument.id
        spot == find_market_data(id, md.spots, "Spot")
        divs == find_market_data(id, md.dividends, "Dividends")
        borrow == find_market_data(id, md.borrow_curves, "Borrow curve")
        yield_curve == find_market_data(instrument.credit_id, md.yield_curves,
                                        "Yield curve for forward")
    IN  IF ~spot.ok THEN spot
        ELSE IF ~divs.ok THEN divs
        ELSE IF ~borrow.ok THEN borrow
        ELSE IF ~yield_curve.ok THEN yield_curve
        ELSE Ok(EquityForward_new(md.spot_date, Val(spot),
                                  instrument.settlement, Val(yield_curve),
                                  Val(borrow), Val(divs), high_water_mark))

MarketData_vol_surface(md, instrument, forward, high_water_mark) ==
    LET vol == find_market_data(instrument.id, md.vol_surfaces, "Vol surface")
    IN  IF ~vol.ok THEN vol
        ELSE Ok(VolDecorate(instrument, Val(vol), md.spot_date, forward))

\* SavedData::new
SavedData_new ==
    [discount_date |-> None, replaced_discount_date |-> FALSE,
     spots |-> EmptyMap, yield_curves |-> EmptyMap, borrow_curves |-> EmptyMap,
     dividends |-> EmptyMap, vol_surfaces |-> EmptyMap]

\* An apply_bump that forgets to save the old value.
apply_bump_NoSave(id, bump, to_bump, to_save) ==
    IF id \in DOMAIN to_bump
    THEN [ret |-> TRUE, to_save |-> to_save,
          to_bump |-> [to_bump EXCEPT ![id] = BumpApply(bump, to_bump[id])]]
    ELSE [ret |-> FALSE, to_save |-> to_save, to_bump |-> to_bump]

\* An apply_bump that reports whether the value changed, not whether the slot
\* was found.
apply_bump_ReportsChange(id, bump, to_bump, to_save) ==
    IF id \in DOMAIN to_bump
    THEN [ret |-> BumpApply(bump, to_bump[id]) # to_bump[id],
          to_save |-> MapInsert(to_save, id, to_bump[id]),
          to_bump |-> [to_bump EXCEPT ![id] = BumpApply(bump, to_bump[id])]]
    ELSE [ret |-> FALSE, to_save |-> to_save, to_bump |-> to_bump]

\* An apply_bump that records the id in the save even when the table does
\* not hold it.
apply_bump_SavesMissing(id, bump, to_bump, to_save) ==
    IF id \in DOMAIN to_bump
    THEN [ret |-> TRUE,
          to_save |-> MapInsert(to_save, id, to_bump[id]),
          to_bump |-> [to_bump EXCEPT ![id] = BumpApply(bump, to_bump[id])]]
    ELSE [ret |-> FALSE, to_save |-> MapInsert(to_save, id, 0),
          to_bump |-> to_bump]

\* apply_bump: the old value is inserted into the save unconditionally.
apply_bump(id, bump, to_bump, to_save) ==
    IF id \in DOMAIN to_bump
    THEN [ret |-> TRUE,
          to_save |-> MapInsert(to_save, id, to_bump[id]),
          to_bump |-> [to_bump EXCEPT ![id] = BumpApply(bump, to_bump[id])]]
    ELSE [ret |-> FALSE, to_save |-> to_save, to_bump |-> to_bump]

\* impl Bumpable for MarketData: each bump hands its own table of the market
\* data and the table of the same kind of the SavedData to apply_bump.
MarketData_bump_spot(md, id, bump, saved) ==
    LET r == apply_bump(id, bump, md.spots, saved.spots)
    IN  [ret |-> r.ret, md |-> [md EXCEPT !.spots = r.to_bump],
         saved |-> [saved EXCEPT !.spots = r.to_save]]

MarketData_bump_yield(md, credit_id, bump, saved) ==
    LET r == apply_bump(credit_id, bump, md.yield_curves, saved.yield_curves)
    IN  [ret |-> r.ret, md |-> [md EXCEPT !.yield_curves = r.to_bump],
         saved |-> [saved EXCEPT !.yield_curves = r.to_save]]

\* A bump_borrow that saves into the ledger's yield curves, the other table
\* of rate curves.
MarketData_bump_borrow_SavesAsYield(md, id, bump, saved) ==
    LET r == apply_bump(id, bump, md.borrow_curves, saved.yield_curves)
    IN  [ret |-> r.ret, md |-> [md EXCEPT !.borrow_curves = r.to_bump],
         saved |-> [saved EXCEPT !.yield_curves = r.to_save]]

MarketData_bump_borrow(md, id, bump, saved) ==
    LET r == apply_bump(id, bump, md.borrow_curves, saved.borrow_curves)
    IN  [ret |-> r.ret, md |-> [md EXCEPT !.borrow_curves = r.to_bump],
         saved |-> [saved EXCEPT !.borrow_curves = r.to_save]]

MarketData_bump_divs(md, id, bump, saved) ==
    LET r == apply_bump(id, bump, md.dividends, saved.dividends)
    IN  [ret |-> r.ret, md |-> [md EXCEPT !.dividends = r.to_bump],
         saved |-> [saved EXCEPT !.dividends = r.to_save]]

MarketData_bump_vol(md, id, bump, saved) ==
    LET r == apply_bump(id, bump, md.vol_surfaces, saved.vol_surfaces)
    IN  [ret |-> r.ret, md |-> [md EXCEPT !.vol_surfaces = r.to_bump],
         saved |-> [saved EXCEPT !.vol_surfaces = r.to_save]]

\* A bump_discount_date that always reports a change.
MarketData_bump_discount_date_AlwaysTrue(md, replacement, saved) ==
    [ret |-> TRUE,
     md |-> [md EXCEPT !.discount_date = Some(replacement)],
     saved |-> [saved EXCEPT !.discount_date = md.discount_date,
                             !.replaced_discount_date = TRUE]]

MarketData_bump_discount_date(md, replacement, saved) ==
    LET saved1 == [saved EXCEPT !.discount_date = md.discount_date,
                                !.replaced_discount_date = TRUE]
        md1 == [md EXCEPT !.discount_date = Some(replacement)]
    IN  [ret |-> saved1.discount_date # md1.discount_date,
         md |-> md1, saved |-> saved1]

\* A copy_from_saved that replaces the table by the saved one.
copy_from_saved_ReplacesTable(to_restore, saved) == saved

copy_from_saved(to_restore, saved) ==
    [k \in (DOMAIN to_restore) \cup (DOMAIN saved) |->
        IF k \in DOMAIN saved THEN saved[k] ELSE to_restore[k]]

MarketData_restore(md, saved) ==
    [md EXCEPT
        !.discount_date = IF saved.replaced_discount_date
                          THEN saved.discount_date ELSE @,
        !.spots = copy_from_saved(@, saved.spots),
        !.yield_curves = copy_from_saved(@, saved.yield_curves),
        !.borrow_curves = copy_from_saved(@, saved.borrow_curves),
        !.dividends = copy_from_saved(@, saved.dividends),
        !.vol_surfaces = copy_from_saved(@, saved.vol_surfaces)]

\* A clear that forgets the discount-date snapshot and its flag.
SavedData_clear_KeepsDiscountDate(saved) ==
    [SavedData_new EXCEPT !.discount_date = saved.discount_date,
                          !.replaced_discount_date = saved.replaced_discount_date]

SavedData_clear(saved) == SavedData_new

\* impl Bumpable for MarketData, restore: the ledger must be a SavedData.
MarketData_Bumpable_restore(md, any_saved) ==
    IF downcast_ref(any_saved, "SavedData") # None
    THEN [ret |-> Ok(TRUE), md |-> MarketData_restore(md, any_saved.ledger)]
    ELSE [ret |-> Err(<<"Mismatching save space for restore">>), md |-> md]

----------------------------------------------------------------------------
(* risk/dependencies.rs (the frozen dependency record).  A record           *)
(*   instruments              id -> instrument (instrument_by_id)           *)
(*   forward_curves           id -> high-water mark of the forward          *)
(*   vol_surfaces             id -> high-water mark of the vol surface      *)
(*   forward_id_from_credit_id  credit id -> Vec of instrument ids          *)

instrument_by_id(deps, id) ==
    IF id \in DOMAIN deps.instruments THEN Some(deps.instruments[id]) ELSE None

forward_curve_hwm(deps, id) ==
    IF id \in DOMAIN deps.forward_curves THEN Some(deps.forward_curves[id]) ELSE None

vol_surface_hwm(deps, id) ==
    IF id \in DOMAIN deps.vol_surfaces THEN Some(deps.vol_surfaces[id]) ELSE None

forward_id_by_credit_id(deps, credit_id) ==
    IF credit_id \in DOMAIN deps.forward_id_from_credit_id
    THEN deps.forward_id_from_credit_id[credit_id] ELSE <<>>

----------------------------------------------------------------------------
(* risk/cache.rs.  A PricingContextPrefetch is a record                     *)
(*   [context, forward_curves, vol_surfaces]                                *)
(* (its dependencies are passed beside it), a SavedPrefetch a record        *)
(*   [saved_data, forward_curves, vol_surfaces].                            *)

SavedPrefetch_new ==
    [saved_data |-> SavedData_new, forward_curves |-> EmptyMap,
     vol_surfaces |-> EmptyMap]

SavedPrefetch_clear(saved) ==
    [saved_data |-> SavedData_clear(saved.saved_data),
     forward_curves |-> EmptyMap, vol_surfaces |-> EmptyMap]

\* walk_dependencies: `order` is the iteration order of the HashMap of the
\* forward requirements.  The walk stops at the first error and leaves the
\* two tables as filled so far.
RECURSIVE walk_dependencies_ForwardsOnly(_, _, _, _, _)
RECURSIVE walk_dependencies(_, _, _, _, _)
\* A walk that fetches the forwards and never the associated vol surface.
walk_dependencies_ForwardsOnly(context, deps, order, forward_curves, vol_surfaces) ==
    IF order = <<>>
    THEN [ret |-> Ok(TRUE), forward_curves |-> forward_curves,
          vol_surfaces |-> vol_surfaces]
    ELSE
      LET id == Head(order)
          forward == MarketData_forward_curve(context, deps.instruments[id],
                                              deps.forward_curves[id])
      IN  IF ~forward.ok
          THEN [ret |-> forward, forward_curves |-> forward_curves,
                vol_surfaces |-> vol_surfaces]
          ELSE walk_dependencies_ForwardsOnly(context, deps, Tail(order),
                   MapInsert(forward_curves, id, Val(forward)), vol_surfaces)

walk_dependencies(context, deps, order, forward_curves, vol_surfaces) ==
    IF order = <<>>
    THEN [ret |-> Ok(TRUE), forward_curves |-> forward_curves,
          vol_surfaces |-> vol_surfaces]
    ELSE
      LET id == Head(order)
          instrument == deps.instruments[id]
          forward == MarketData_forward_curve(context, instrument,
                                              deps.forward_curves[id])
      IN  IF ~forward.ok
          THEN [ret |-> forward, forward_curves |-> forward_curves,
                vol_surfaces |-> vol_surfaces]
          ELSE IF id \in DOMAIN deps.vol_surfaces
          THEN LET vol == MarketData_vol_surface(context, instrument,
                               Val(forward), deps.vol_surfaces[id])
               IN  IF ~vol.ok
                   THEN [ret |-> vol, forward_curves |-> forward_curves,
                         vol_surfaces |-> vol_surfaces]
                   ELSE walk_dependencies(context, deps, Tail(order),
                            MapInsert(forward_curves, id, Val(forward)),
                            MapInsert(vol_surfaces, id, Val(vol)))
          ELSE walk_dependencies(context, deps, Tail(order),
                   MapInsert(forward_curves, id, Val(forward)), vol_surfaces)

\* A constructor that keeps what the walk fetched before its error.
PricingContextPrefetch_new_KeepsPartialWalk(self, context, deps, order) ==
    LET w == walk_dependencies(context, deps, order, EmptyMap, EmptyMap)
    IN  Ok([context |-> MarketData_clone(context, self),
            forward_curves |-> w.forward_curves,
            vol_surfaces |-> w.vol_surfaces])

\* A constructor that keeps the market data it was handed instead of a clone.
PricingContextPrefetch_new_SharesContext(self, context, deps, order) ==
    LET w == walk_dependencies(context, deps, order, EmptyMap, EmptyMap)
    IN  IF ~w.ret.ok THEN Err(w.ret.err)
        ELSE Ok([context |-> context, forward_curves |-> w.forward_curves,
                 vol_surfaces |-> w.vol_surfaces])

\* PricingContextPrefetch::new: Ok(the cache `self`, which holds a clone of
\* the market data) or the walk's error.
PricingContextPrefetch_new(self, context, deps, order) ==
    LET w == walk_dependencies(context, deps, order, EmptyMap, EmptyMap)
    IN  IF ~w.ret.ok THEN Err(w.ret.err)
        ELSE Ok([context |-> MarketData_clone(context, self),
                 forward_curves |-> w.forward_curves,
                 vol_surfaces |-> w.vol_surfaces])

\* refetch_all: both tables are cleared, then walked again.
refetch_all(p, deps, order) ==
    LET w == walk_dependencies(p.context, deps, order, EmptyMap, EmptyMap)
    IN  [ret |-> w.ret,
         p |-> [p EXCEPT !.forward_curves = w.forward_curves,
                         !.vol_surfaces = w.vol_surfaces]]

\* A forward refetch that snapshots the forward after rebuilding it.
refetch_forward_SavesRebuilt(p, deps, id, instrument, saved) ==
    LET hwm == forward_curve_hwm(deps, id)
        fwd == MarketData_forward_curve(p.context, instrument,
                                        CHOOSE h \in hwm : TRUE)
    IN  IF hwm = None
        THEN [ret |-> Err(<<"Cannot find forward">>), p |-> p, saved |-> saved]
        ELSE IF ~fwd.ok THEN [ret |-> fwd, p |-> p, saved |-> saved]
        ELSE [ret |-> Ok(TRUE),
              p |-> [p EXCEPT !.forward_curves[id] = Val(fwd)],
              saved |-> [saved EXCEPT !.forward_curves =
                            MapInsert(@, id, Val(fwd))]]

\* The forward half of refetch (cache.rs 92-102), for an id with a cached
\* forward and a known instrument.
refetch_forward(p, deps, id, instrument, saved) ==
    LET saved1 == [saved EXCEPT !.forward_curves =
                       MapInsert(@, id, p.forward_curves[id])]
        hwm == forward_curve_hwm(deps, id)
    IN  IF hwm = None
        THEN [ret |-> Err(<<"Cannot find forward">>), p |-> p, saved |-> saved1]
        ELSE LET fwd == MarketData_forward_curve(p.context, instrument,
                                                 CHOOSE h \in hwm : TRUE)
             IN  IF ~fwd.ok
                 THEN [ret |-> fwd, p |-> p, saved |-> saved1]
                 ELSE [ret |-> Ok(TRUE),
                       p |-> [p EXCEPT !.forward_curves[id] = Val(fwd)],
                       saved |-> saved1]

\* The vol half of refetch (cache.rs 110-125): nothing is done when the id
\* has no cached vol surface.
refetch_vol(p, deps, id, instrument, saved) ==
    IF id \in DOMAIN p.vol_surfaces
    THEN LET saved1 == [saved EXCEPT !.vol_surfaces =
                            MapInsert(@, id, p.vol_surfaces[id])]
             vol_hwm == vol_surface_hwm(deps, id)
         IN  IF vol_hwm = None
             THEN [ret |-> Err(<<"Cannot find vol">>), p |-> p, saved |-> saved1]
             ELSE LET vol == MarketData_vol_surface(p.context, instrument,
                                 p.forward_curves[id], CHOOSE h \in vol_hwm : TRUE)
                  IN  IF ~vol.ok
                      THEN [ret |-> vol, p |-> p, saved |-> saved1]
                      ELSE [ret |-> Ok(TRUE),
                            p |-> [p EXCEPT !.vol_surfaces[id] = Val(vol)],
                            saved |-> saved1]
    ELSE [ret |-> Ok(TRUE), p |-> p, saved |-> saved]

\* A refetch without the early return for "nothing was bumped".
refetch_NoEarlyReturn(p, deps, id, bumped_forward, bumped_vol, saved) ==
    IF id \notin DOMAIN p.forward_curves
    THEN [ret |-> Err(<<"Cannot find prefetched forward">>), p |-> p,
          saved |-> saved]
    ELSE IF instrument_by_id(deps, id) = None
    THEN [ret |-> Err(<<"Cannot find instrument">>), p |-> p, saved |-> saved]
    ELSE
      LET instrument == deps.instruments[id]
          f == IF bumped_forward
               THEN refetch_forward(p, deps, id, instrument, saved)
               ELSE [ret |-> Ok(TRUE), p |-> p, saved |-> saved]
      IN  IF ~f.ret.ok THEN f
          ELSE IF bumped_vol
          THEN refetch_vol(f.p, deps, id, instrument, f.saved)
          ELSE f

\* A refetch that rebuilds the vol surface from the forward cached before
\* the call, and then the forward.
refetch_VolFromOldForward(p, deps, id, bumped_forward, bumped_vol, saved) ==
    IF ~bumped_forward /\ ~bumped_vol
    THEN [ret |-> Ok(FALSE), p |-> p, saved |-> saved]
    ELSE IF id \notin DOMAIN p.forward_curves
    THEN [ret |-> Err(<<"Cannot find prefetched forward">>), p |-> p,
          saved |-> saved]
    ELSE IF instrument_by_id(deps, id) = None
    THEN [ret |-> Err(<<"Cannot find instrument">>), p |-> p, saved |-> saved]
    ELSE
      LET instrument == deps.instruments[id]
          v == IF bumped_vol
               THEN refetch_vol(p, deps, id, instrument, saved)
               ELSE [ret |-> Ok(TRUE), p |-> p, saved |-> saved]
      IN  IF ~v.ret.ok THEN v
          ELSE IF bumped_forward
          THEN refetch_forward(v.p, deps, id, instrument, v.saved)
          ELSE v

refetch(p, deps, id, bumped_forward, bumped_vol, saved) ==
    IF ~bumped_forward /\ ~bumped_vol
    THEN [ret |-> Ok(FALSE), p |-> p, saved |-> saved]
    ELSE IF id \notin DOMAIN p.forward_curves
    THEN [ret |-> Err(<<"Cannot find prefetched forward">>), p |-> p,
          saved |-> saved]
    ELSE IF instrument_by_id(deps, id) = None
    THEN [ret |-> Err(<<"Cannot find instrument">>), p |-> p, saved |-> saved]
    ELSE
      LET instrument == deps.instruments[id]
          f == IF bumped_forward
               THEN refetch_forward(p, deps, id, instrument, saved)
               ELSE [ret |-> Ok(TRUE), p |-> p, saved |-> saved]
      IN  IF ~f.ret.ok THEN f
          ELSE IF bumped_vol
          THEN refetch_vol(f.p, deps, id, instrument, f.saved)
          ELSE f

\* The inner market-data bump's effect on the cache and on the ledger.
WithContext(p, saved, m) ==
    [p |-> [p EXCEPT !.context = m.md],
     saved |-> [saved EXCEPT !.saved_data = m.saved]]

\* impl Bumpable for PricingContextPrefetch (the ledger is a SavedPrefetch).
\* A bump_spot that looks for the cached forward before it bumps the spot.
bump_spot_ChecksCacheFirst(p, deps, id, bump, saved) ==
    IF id \in DOMAIN p.context.spots /\ id \notin DOMAIN p.forward_curves
    THEN [ret |-> Err(<<"Cannot find prefetched forward">>), p |-> p,
          saved |-> saved]
    ELSE LET m == MarketData_bump_spot(p.context, id, bump, saved.saved_data)
             c == WithContext(p, saved, m)
         IN  refetch(c.p, deps, id, m.ret, FALSE, c.saved)

bump_spot(p, deps, id, bump, saved) ==
    LET m == MarketData_bump_spot(p.context, id, bump, saved.saved_data)
        c == WithContext(p, saved, m)
    IN  refetch(c.p, deps, id, m.ret, FALSE, c.saved)

RECURSIVE refetch_each(_, _, _, _, _)
\* The loop of bump_yield over the ids of forward_id_by_credit_id: the first
\* refetch error ends it.
refetch_each(p, deps, v, bumped, saved) ==
    IF v = <<>>
    THEN [ret |-> Ok(bumped), p |-> p, saved |-> saved]
    ELSE LET r == refetch(p, deps, Head(v), bumped, FALSE, saved)
         IN  IF ~r.ret.ok THEN r
             ELSE refetch_each(r.p, deps, Tail(v), bumped, r.saved)

\* A bump_yield that rebuilds only the first forward of the credit id.
bump_yield_FirstIdOnly(p, deps, credit_id, bump, saved) ==
    LET m == MarketData_bump_yield(p.context, credit_id, bump, saved.saved_data)
        c == WithContext(p, saved, m)
        v == forward_id_by_credit_id(deps, credit_id)
    IN  refetch_each(c.p, deps, IF v = <<>> THEN v ELSE <<Head(v)>>, m.ret,
                     c.saved)

bump_yield(p, deps, credit_id, bump, saved) ==
    LET m == MarketData_bump_yield(p.context, credit_id, bump, saved.saved_data)
        c == WithContext(p, saved, m)
        v == forward_id_by_credit_id(deps, credit_id)
    IN  refetch_each(c.p, deps, v, m.ret, c.saved)

\* A bump_borrow that asks refetch for the vol surface instead of the forward.
bump_borrow_RefetchesVol(p, deps, id, bump, saved) ==
    LET m == MarketData_bump_borrow(p.context, id, bump, saved.saved_data)
        c == WithContext(p, saved, m)
    IN  refetch(c.p, deps, id, FALSE, m.ret, c.saved)

bump_borrow(p, deps, id, bump, saved) ==
    LET m == MarketData_bump_borrow(p.context, id, bump, saved.saved_data)
        c == WithContext(p, saved, m)
    IN  refetch(c.p, deps, id, m.ret, FALSE, c.saved)

bump_divs(p, deps, id, bump, saved) ==
    LET m == MarketData_bump_divs(p.context, id, bump, saved.saved_data)
        c == WithContext(p, saved, m)
    IN  refetch(c.p, deps, id, m.ret, FALSE, c.saved)

\* A bump_vol that asks refetch for the forward instead of the vol surface.
bump_vol_RefetchesForward(p, deps, id, bump, saved) ==
    LET m == MarketData_bump_vol(p.context, id, bump, saved.saved_data)
        c == WithContext(p, saved, m)
    IN  refetch(c.p, deps, id, m.ret, FALSE, c.saved)

bump_vol(p, deps, id, bump, saved) ==
    LET m == MarketData_bump_vol(p.context, id, bump, saved.saved_data)
        c == WithContext(p, saved, m)
    IN  refetch(c.p, deps, id, FALSE, m.ret, c.saved)

\* A bump_discount_date that also snapshots the cached forwards.
bump_discount_date_SavesForwards(p, replacement, saved) ==
    LET m == MarketData_bump_discount_date(p.context, replacement,
                                           saved.saved_data)
        c == WithContext(p, saved, m)
    IN  [ret |-> Ok(m.ret), p |-> c.p,
         saved |-> [c.saved EXCEPT !.forward_curves = p.forward_curves]]

bump_discount_date(p, replacement, saved) ==
    LET m == MarketData_bump_discount_date(p.context, replacement,
                                           saved.saved_data)
        c == WithContext(p, saved, m)
    IN  [ret |-> Ok(m.ret), p |-> c.p, saved |-> c.saved]

\* A restore that rebuilds the snapshotted forwards from the market data
\* before that market data is restored.
restore_RefetchBeforeContext(p, deps, saved) ==
    [context |-> MarketData_restore(p.context, saved.saved_data),
     forward_curves |->
        [id \in DOMAIN p.forward_curves |->
            IF id \in DOMAIN saved.forward_curves
            THEN Val(MarketData_forward_curve(p.context, deps.instruments[id],
                                              deps.forward_curves[id]))
            ELSE p.forward_curves[id]],
     vol_surfaces |-> copy_from_saved(p.vol_surfaces, saved.vol_surfaces)]

\* PricingContextPrefetch::restore with a SavedPrefetch.
restore(p, deps, saved) ==
    [context |-> MarketData_restore(p.context, saved.saved_data),
     forward_curves |-> copy_from_saved(p.forward_curves, saved.forward_curves),
     vol_surfaces |-> copy_from_saved(p.vol_surfaces, saved.vol_surfaces)]

\* A restore that takes a SavedData for the ledger of its inner market data.
PricingContextPrefetch_restore_AcceptsSavedData(p, deps, any_saved) ==
    IF downcast_ref(any_saved, "SavedPrefetch") # None
    THEN [ret |-> Ok(TRUE), p |-> restore(p, deps, any_saved.ledger)]
    ELSE [ret |-> Ok(TRUE),
          p |-> [p EXCEPT !.context = MarketData_restore(@, any_saved.ledger)]]

\* impl Bumpable for PricingContextPrefetch, restore: the ledger must be a
\* SavedPrefetch.
PricingContextPrefetch_restore(p, deps, any_saved) ==
    IF downcast_ref(any_saved, "SavedPrefetch") # None
    THEN [ret |-> Ok(TRUE), p |-> restore(p, deps, any_saved.ledger)]
    ELSE [ret |-> Err(<<"Mismatching save space for restore">>), p |-> p]

\* impl PricingContext for PricingContextPrefetch
find_cached_data(id, collection, item) ==
    IF id \in DOMAIN collection
    THEN Ok(collection[id])
    ELSE Err(<<item, "not found (incorrect dependencies?):", id>>)

\* A forward_curve that builds the forward from the market data on a miss.
Prefetch_forward_curve_Lazy(p, instrument, high_water_mark) ==
    IF instrument.id \in DOMAIN p.forward_curves
    THEN Ok(p.forward_curves[instrument.id])
    ELSE MarketData_forward_curve(p.context, instrument, high_water_mark)

Prefetch_forward_curve(p, instrument, high_water_mark) ==
    find_cached_data(instrument.id, p.forward_curves, "Forward")

Prefetch_vol_surface(p, instrument, forward, high_water_mark) ==
    find_cached_data(instrument.id, p.vol_surfaces, "Vol Surface")

Prefetch_spot_date(p) == MarketData_spot_date(p.context)

Prefetch_discount_date(p) == MarketData_discount_date(p.context)

Prefetch_yield_curve(p, credit_id) == MarketData_yield_curve(p.context, credit_id)

Prefetch_spot(p, id) == MarketData_spot(p.context, id)

Prefetch_correlation(p) == MarketData_correlation(p.context)

----------------------------------------------------------------------------
(* instruments/assets.rs.  Prices and discount factors are fixed-point     *)
(* numbers in units of 1/One; spots and weights are whole numbers, so that  *)
(* spot * df and weight * price are again in units of 1/One.                *)

\* The literal 1.0 of discount_from_spot.
One == 100

\* DateRule::apply of a settlement rule of `settlement` days.
DateRule_apply(settlement, date) == date + settlement

\* RateCurve::df(from, to): the discount factor of the abstract curve yc
\* between two dates; above 1.0 when `to` is before `from`.
RateCurve_df(yc, from, to) == Ok(One - yc * (to - from))

Currency_new(id, settlement) ==
    [type |-> "Currency", id |-> id, settlement |-> settlement]

Equity_new(id, credit_id, settlement) ==
    [type |-> "Equity", id |-> id, credit_id |-> credit_id,
     settlement |-> settlement]

CreditEntity_new(id, settlement) ==
    [type |-> "CreditEntity", id |-> id, settlement |-> settlement]

\* An instrument whose as_priceable is the trait's default, None.
Unpriceable_new(id) == [type |-> "Unpriceable", id |-> id, settlement |-> 0]

\* ZeroCoupon::new (instruments/bonds.rs)
ZeroCoupon_new(id, credit_id, payment_date, settlement) ==
    [type |-> "ZeroCoupon", id |-> id, credit_id |-> credit_id,
     payment_date |-> payment_date, settlement |-> settlement]

\* SpotStartingEuropean::new (instruments/options.rs): an option on the
\* equity `equity`, with its own id and credit id, expiring at `expiry`.
SpotStartingEuropean_new(id, credit_id, equity, settlement, expiry) ==
    [type |-> "SpotStartingEuropean", id |-> id, credit_id |-> credit_id,
     equity |-> equity, settlement |-> settlement, expiry |-> expiry]

\* Instrument::credit_id of Currency, Equity, CreditEntity and ZeroCoupon.
Instrument_credit_id(instrument) ==
    IF instrument.type \in {"Equity", "ZeroCoupon", "SpotStartingEuropean"}
    THEN instrument.credit_id
    ELSE instrument.id

\* Instrument::as_priceable: Some(self) for the assets and the zero coupon.
as_priceable(instrument) ==
    IF instrument.type \in {"Currency", "Equity", "CreditEntity", "ZeroCoupon",
                            "SpotStartingEuropean"}
    THEN Some(instrument) ELSE None

\* A &PricingContext is either a MarketData or a PricingContextPrefetch.
PricingContext(type, self) == [type |-> type, self |-> self]

PricingContext_spot_date(context) ==
    IF context.type = "MarketData" THEN MarketData_spot_date(context.self)
    ELSE Prefetch_spot_date(context.self)

PricingContext_discount_date(context) ==
    IF context.type = "MarketData" THEN MarketData_discount_date(context.self)
    ELSE Prefetch_discount_date(context.self)

\* Neither implementation looks at the high-water mark (_high_water_mark).
PricingContext_yield_curve(context, credit_id, high_water_mark) ==
    IF context.type = "MarketData"
    THEN MarketData_yield_curve(context.self, credit_id)
    ELSE Prefetch_yield_curve(context.self, credit_id)

PricingContext_spot(context, id) ==
    IF context.type = "MarketData" THEN MarketData_spot(context.self, id)
    ELSE Prefetch_spot(context.self, id)

PricingContext_forward_curve(context, instrument, high_water_mark) ==
    IF context.type = "MarketData"
    THEN MarketData_forward_curve(context.self, instrument, high_water_mark)
    ELSE Prefetch_forward_curve(context.self, instrument, high_water_mark)

PricingContext_vol_surface(context, instrument, forward, high_water_mark) ==
    IF context.type = "MarketData"
    THEN MarketData_vol_surface(context.self, instrument, forward,
                                high_water_mark)
    ELSE Prefetch_vol_surface(context.self, instrument, forward,
                              high_water_mark)

Max(a, b) == IF a >= b THEN a ELSE b

discount_from_spot_AlwaysDiscounts(instrument, context) ==
    LET spot_date == PricingContext_spot_date(context)
        pay_date == DateRule_apply(instrument.settlement, spot_date)
        yc == PricingContext_yield_curve(context,
                                         Instrument_credit_id(instrument),
                                         pay_date)
    IN  IF PricingContext_discount_date(context) = None THEN Ok(One)
        ELSE IF ~yc.ok THEN yc
        ELSE RateCurve_df(Val(yc), pay_date,
                 CHOOSE d \in PricingContext_discount_date(context) : TRUE)

discount_from_spot(instrument, context) ==
    IF PricingContext_discount_date(context) = None THEN Ok(One)
    ELSE LET discount_date ==
                 CHOOSE d \in PricingContext_discount_date(context) : TRUE
             spot_date == PricingContext_spot_date(context)
             pay_date == DateRule_apply(instrument.settlement, spot_date)
         IN  IF discount_date = pay_date THEN Ok(One)
             ELSE LET yc == PricingContext_yield_curve(context,
                                Instrument_credit_id(instrument),
                                Max(discount_date, pay_date))
                  IN  IF ~yc.ok THEN yc
                      ELSE RateCurve_df(Val(yc), pay_date, discount_date)

\* impl Priceable for Currency
Currency_price(self, context) == discount_from_spot(self, context)

Equity_price_IgnoresDiscount(self, context) ==
    LET spot == PricingContext_spot(context, self.id)
    IN  IF ~spot.ok THEN spot ELSE Ok(Val(spot) * One)

\* impl Priceable for Equity
Equity_price(self, context) ==
    LET df == discount_from_spot(self, context)
        spot == PricingContext_spot(context, self.id)
    IN  IF ~df.ok THEN df
        ELSE IF ~spot.ok THEN spot
        ELSE Ok(Val(spot) * Val(df))

\* impl Priceable for CreditEntity
CreditEntity_price(self, context) == discount_from_spot(self, context)

----------------------------------------------------------------------------
(* instruments/bonds.rs                                                    *)

\* The discount date ZeroCoupon::price discounts to (bonds.rs 110-114).
ZeroCoupon_discount_date(self, context) ==
    IF PricingContext_discount_date(context) = None
    THEN DateRule_apply(self.settlement, PricingContext_spot_date(context))
    ELSE CHOOSE d \in PricingContext_discount_date(context) : TRUE

ZeroCoupon_price_KeyedByOwnId(self, context) ==
    LET discount_date == ZeroCoupon_discount_date(self, context)
    IN  IF discount_date = self.payment_date THEN Ok(One)
        ELSE LET yc == PricingContext_yield_curve(context, self.id,
                            Max(discount_date, self.payment_date))
             IN  IF ~yc.ok THEN yc
                 ELSE RateCurve_df(Val(yc), self.payment_date, discount_date)

ZeroCoupon_price_NoSettlement(self, context) ==
    LET discount_date ==
            IF PricingContext_discount_date(context) = None
            THEN PricingContext_spot_date(context)
            ELSE CHOOSE d \in PricingContext_discount_date(context) : TRUE
    IN  IF discount_date = self.payment_date THEN Ok(One)
        ELSE LET yc == PricingContext_yield_curve(context,
                            Instrument_credit_id(self),
                            Max(discount_date, self.payment_date))
             IN  IF ~yc.ok THEN yc
                 ELSE RateCurve_df(Val(yc), self.payment_date, discount_date)

\* impl Priceable for ZeroCoupon
ZeroCoupon_price(self, context) ==
    LET discount_date == ZeroCoupon_discount_date(self, context)
    IN  IF discount_date = self.payment_date THEN Ok(One)
        ELSE LET yc == PricingContext_yield_curve(context,
                            Instrument_credit_id(self),
                            Max(discount_date, self.payment_date))
             IN  IF ~yc.ok THEN yc
                 ELSE RateCurve_df(Val(yc), self.payment_date, discount_date)

\* The high-water mark price() hands to context.yield_curve, None when it
\* reads no yield curve: discount_from_spot (assets.rs 117-128) for the
\* assets, ZeroCoupon::price (bonds.rs 116-121) for the zero coupon.
yield_curve_high_water_mark(instrument, context) ==
    IF instrument.type = "ZeroCoupon"
    THEN LET discount_date == ZeroCoupon_discount_date(instrument, context)
         IN  IF discount_date = instrument.payment_date THEN None
             ELSE Some(Max(discount_date, instrument.payment_date))
    ELSE IF PricingContext_discount_date(context) = None THEN None
    ELSE LET discount_date ==
                 CHOOSE d \in PricingContext_discount_date(context) : TRUE
             pay_date == DateRule_apply(instrument.settlement,
                                        PricingContext_spot_date(context))
         IN  IF discount_date = pay_date THEN None
             ELSE Some(Max(discount_date, pay_date))

\* The high-water mark dependencies() declares for the instrument's credit
\* id: dependence_on_spot_discount (assets.rs 133-142) for the assets,
\* ZeroCoupon::dependencies (bonds.rs 64-72) for the zero coupon.
declared_high_water_mark(instrument, spot_date) ==
    IF instrument.type = "ZeroCoupon" THEN instrument.payment_date
    ELSE DateRule_apply(instrument.settlement, spot_date)

\* SpotStartingEuropean::price (instruments/options.rs): the forward of the
\* underlying, then its vol surface, then the option's own yield curve, each
\* read from the context and each error returned as it is.  The number is a
\* stand-in for the Black price: it depends on all three reads.
SpotStartingEuropean_price(self, context) ==
    LET forward == PricingContext_forward_curve(context, self.equity,
                                                self.expiry)
    IN  IF ~forward.ok THEN forward
        ELSE
          LET vol == PricingContext_vol_surface(context, self.equity,
                                                Val(forward), self.expiry)
          IN  IF ~vol.ok THEN vol
              ELSE
                LET yc == PricingContext_yield_curve(context, self.credit_id,
                                                     self.expiry)
                IN  IF ~yc.ok THEN yc
                    ELSE Ok(Val(forward).spot + Val(vol).surface - Val(yc))

\* priceable.price(context) through the trait object.
Priceable_price(self, context) ==
    CASE self.type = "Currency" -> Currency_price(self, context)
      [] self.type = "SpotStartingEuropean" ->
            SpotStartingEuropean_price(self, context)
      [] self.type = "ZeroCoupon" -> ZeroCoupon_price(self, context)
      [] self.type = "Equity" -> Equity_price(self, context)
      [] self.type = "CreditEntity" -> CreditEntity_price(self, context)

----------------------------------------------------------------------------
(* pricers/selfpricer.rs.  The SelfPricer hands every bump and restore to   *)
(* its PricingContextPrefetch; only bump_time is its own.                   *)

\* A bump_time that moves the spot date and reports success.
bump_time_MovesSpotDate(p, bump) ==
    [ret |-> Ok(TRUE), p |-> [p EXCEPT !.context.spot_date = bump]]

\* impl TimeBumpable for SelfPricer: the bump is ignored.
bump_time(p, bump) ==
    [ret |-> Err(<<"Time bumps not yet supported">>), p |-> p]

\* An instrument with fixings: fix is what instrument.fix(fixing_table)
\* returns for it, a Result of an Option of a Vec of (weight, instrument).
Composite_new(id, fix) ==
    [type |-> "Composite", id |-> id, settlement |-> 0, fix |-> fix]

\* instrument.fix(fixing_table): Ok(None) for an instrument without fixings.
Instrument_fix(instrument) ==
    IF instrument.type = "Composite" THEN instrument.fix ELSE Ok(None)

\* The components of instrument after fixing (selfpricer.rs 49-52).
fixed_instruments(instrument) ==
    LET fixed == Val(Instrument_fix(instrument))
    IN  IF fixed # None THEN CHOOSE f \in fixed : TRUE
        ELSE <<<<1, instrument>>>>

SelfPricerFactory_new_NoValidation(self, instrument, market_data, deps, order) ==
    IF ~Instrument_fix(instrument).ok THEN Instrument_fix(instrument)
    ELSE LET context == PricingContextPrefetch_new(self, market_data, deps, order)
         IN  IF ~context.ok THEN context
             ELSE Ok([instruments |-> fixed_instruments(instrument),
                      context |-> Val(context)])

\* SelfPricerFactory::new.  deps is what the DependencyCollector recorded for
\* the components, order the iteration order of its forward requirements.
SelfPricerFactory_new(self, instrument, market_data, deps, order) ==
    IF ~Instrument_fix(instrument).ok THEN Instrument_fix(instrument)
    ELSE LET instruments == fixed_instruments(instrument)
             unpriceable == {i \in DOMAIN instruments :
                                as_priceable(instruments[i][2]) = None}
             first == CHOOSE i \in unpriceable : \A j \in unpriceable : i <= j
         IN  IF unpriceable # {}
             THEN Err(<<"Instrument", instruments[first][2].id,
                        "is not priceable">>)
             ELSE LET context == PricingContextPrefetch_new(self, market_data,
                                                            deps, order)
                  IN  IF ~context.ok THEN context
                      ELSE Ok([instruments |-> instruments,
                               context |-> Val(context)])

\* The loop of SelfPricer::price from component i on, with the running total.
RECURSIVE price_loop(_, _, _, _)
price_loop(instruments, context, i, total) ==
    IF i > Len(instruments) THEN Ok(total)
    ELSE LET weight == instruments[i][1]
             instrument == instruments[i][2]
         IN  IF as_priceable(instrument) = None
             THEN price_loop(instruments, context, i + 1, total)
             ELSE LET price == Priceable_price(instrument, context)
                  IN  IF ~price.ok THEN price
                      ELSE price_loop(instruments, context, i + 1,
                                      total + weight * Val(price))

SelfPricer_price_Unweighted(self) ==
    price_loop([i \in DOMAIN self.instruments |->
                   <<1, self.instruments[i][2]>>],
               PricingContext("PricingContextPrefetch", self.context), 1, 0)

\* SelfPricer::price
SelfPricer_price(self) ==
    price_loop(self.instruments,
               PricingContext("PricingContextPrefetch", self.context), 1, 0)

----------------------------------------------------------------------------
(* The inputs of a run: the market data handed to the constructor and the  *)
(* frozen dependency record.                                               *)

Instrument(id, credit_id, dynamics) ==
    [id |-> id, credit_id |-> credit_id, settlement |-> 2,
     vol_forward_dynamics |-> dynamics]

\* Tables of sample_market_data (marketdata.rs tests): two equities, two
\* credit ids; `missing` is a set of <<table, id>> left out.
Table(name, ids, v, missing) ==
    [id \in {i \in ids : <<name, i>> \notin missing} |-> v]

SampleMarketData(discount_date, missing) ==
    [obj |-> "market_data", spot_date |-> 0, discount_date |-> discount_date,
     spots |-> Table("spots", InstIds, 100, missing),
     yield_curves |-> Table("yield_curves", CreditIds, 20, missing),
     borrow_curves |-> Table("borrow_curves", InstIds, 30, missing),
     dividends |-> Table("dividends", InstIds, 40, missing),
     vol_surfaces |-> Table("vol_surfaces", InstIds, 50, missing)]

\* The Vec of forward ids of one credit id, in the order of declaration.
RECURSIVE SeqOfSet(_)
SeqOfSet(S) ==
    IF S = {} THEN <<>>
    ELSE LET x == CHOOSE y \in S : TRUE IN <<x>> \o SeqOfSet(S \ {x})

\* A dependency record that declares forwards for fwd and vols for vol.
DependencyRecord(instruments, fwd, vol) ==
    [instruments |-> instruments,
     forward_curves |-> [id \in fwd |-> 5],
     vol_surfaces |-> [id \in vol |-> 7],
     forward_id_from_credit_id |->
        [c \in {instruments[i].credit_id : i \in fwd} |->
            SeqOfSet({i \in fwd : instruments[i].credit_id = c})]]

SameCredit ==
    [id \in InstIds |-> Instrument(id, "X",
        IF id = "A" THEN "StickyStrike" ELSE "StickyDelta")]

OwnCredit ==
    [id \in InstIds |-> Instrument(id, IF id = "A" THEN "X" ELSE "Y",
                                   "StickyStrike")]

OnlyA == [id \in {"A"} |-> Instrument("A", "X", "StickyStrike")]

Inputs ==
    {  \* every forward and vol declared, both equities on one credit id
       [md |-> SampleMarketData(None, {}),
        deps |-> DependencyRecord(SameCredit, {"A", "B"}, {"A", "B"})],
       \* a discount date; B has a forward but no vol requirement
       [md |-> SampleMarketData(Some(1), {}),
        deps |-> DependencyRecord(OwnCredit, {"A", "B"}, {"A"})],
       \* B is market data the instrument did not declare
       [md |-> SampleMarketData(None, {}),
        deps |-> DependencyRecord(OnlyA, {"A"}, {})],
       \* a vol requirement for B without a forward requirement
       [md |-> SampleMarketData(None, {}),
        deps |-> DependencyRecord(OwnCredit, {"A"}, {"A", "B"})],
       \* no vol surface for A, and none required
       [md |-> SampleMarketData(None, {<<"vol_surfaces", "A">>}),
        deps |-> DependencyRecord(OnlyA, {"A"}, {})] }
    \cup
    {  \* one input of A's forward or vol is missing
       [md |-> SampleMarketData(None, {m}),
        deps |-> DependencyRecord(SameCredit, {"A", "B"}, {"A", "B"})] :
       m \in {<<"spots", "A">>, <<"dividends", "A">>, <<"borrow_curves", "A">>,
              <<"yield_curves", "X">>, <<"vol_surfaces", "A">>} }

\* The iteration orders of the forward requirements.
Orders(deps) ==
    {o \in [1..Cardinality(DOMAIN deps.forward_curves) -> DOMAIN deps.forward_curves] :
        \A i, j \in DOMAIN o : i # j => o[i] # o[j]}

----------------------------------------------------------------------------
VARIABLES
    market_data,    \* the MarketData handed to the constructor
    pc,             \* "ready": the cache was built; "failed": new returned Err
    context,        \* PricingContextPrefetch.context
    dependencies,   \* PricingContextPrefetch.dependencies
    forward_curves, \* PricingContextPrefetch.forward_curves
    vol_surfaces,   \* PricingContextPrefetch.vol_surfaces
    save,           \* the SavedPrefetch obtained from new_saveable
    md_save,        \* the SavedData obtained from market_data.new_saveable
    instruments,    \* SelfPricer.instruments: the weighted components
    other,          \* a second cache constructed from the same market data
    arg,            \* the instrument and the context of the last price call
    result,         \* the last call and what it returned
    nbumps,         \* number of bump calls so far
    \* history variables
    origin,         \* the cache as constructed
    base,           \* the cache when the ledger was created or last cleared
    txn,            \* calls since then: "bumping" (only bumps that returned
                    \* Ok), "restored" (those, then one restore), "other"
    touched,        \* <<bump, id>> -> bumps that returned Ok(true) since
                    \* then (kept while txn is not "other")
    cyclic          \* the calls so far are cycles of one bump that returned
                    \* Ok(true), one restore, one clear (or a prefix of one)

vars == <<market_data, pc, context, dependencies, forward_curves, vol_surfaces,
          save, md_save, instruments, other, arg, result, nbumps, origin, base,
          touched, txn, cyclic>>

\* The cache as one value.
P == [context |-> context, forward_curves |-> forward_curves,
      vol_surfaces |-> vol_surfaces]

\* The cache is left as p.  A write to its market data is a write to every
\* name of that object.
SetP(p) ==
    /\ context' = p.context
    /\ forward_curves' = p.forward_curves
    /\ vol_surfaces' = p.vol_surfaces
    /\ market_data' = IF market_data.obj = p.context.obj
                      THEN p.context ELSE market_data
    /\ other' = IF other.context.obj = p.context.obj
                THEN [other EXCEPT !.context = p.context] ELSE other

Call(op, id, bump, ret) == [op |-> op, id |-> id, bump |-> bump, ret |-> ret]

BumpOps == {"bump_spot", "bump_yield", "bump_borrow", "bump_divs", "bump_vol",
            "bump_discount_date"}

\* No price call was the last call.
NoArg == [instrument |-> [id |-> ""], context |-> ""]

NoTouch == [k \in {} |-> 0]
Touches(k) == IF k \in DOMAIN touched THEN touched[k] ELSE 0
TotalTouches == Cardinality({<<k, n>> \in (DOMAIN touched) \X (1..MaxBumps + 1) :
                                n <= touched[k]})

\* PricingContextPrefetch::new on the inputs, then new_saveable.
InitFrom(inputs) ==
    \E in \in inputs : \E order \in Orders(in.deps) :
      LET r == PricingContextPrefetch_new("context", in.md, in.deps, order)
          p == IF r.ok THEN Val(r)
               ELSE [context |-> MarketData_clone(in.md, "context"),
                     forward_curves |-> EmptyMap, vol_surfaces |-> EmptyMap]
          r2 == PricingContextPrefetch_new("other", in.md, in.deps, order)
      IN  /\ market_data = in.md
          /\ dependencies = in.deps
          /\ pc = IF r.ok THEN "ready" ELSE "failed"
          /\ context = p.context
          /\ forward_curves = p.forward_curves
          /\ vol_surfaces = p.vol_surfaces
          /\ save = SavedPrefetch_new
          /\ md_save = SavedData_new
          /\ instruments = <<>>
          /\ other = IF r2.ok THEN Val(r2)
                     ELSE [context |-> MarketData_clone(in.md, "other"),
                           forward_curves |-> EmptyMap,
                           vol_surfaces |-> EmptyMap]
          /\ arg = NoArg
          /\ result = Call("new", "", 0, IF r.ok THEN Ok(TRUE) ELSE r)
          /\ nbumps = 0
          /\ origin = p
          /\ base = p
          /\ touched = NoTouch
          /\ txn = "bumping"
          /\ cyclic = TRUE

Init == InitFrom(Inputs)

\* A bump call that returned r = [ret, p, saved].
Bumped(op, id, bump, r) ==
    /\ pc = "ready"
    /\ nbumps < MaxBumps
    /\ nbumps' = nbumps + 1
    /\ SetP(r.p)
    /\ save' = r.saved
    /\ result' = Call(op, id, bump, r.ret)
    /\ txn' = IF txn = "bumping" /\ r.ret.ok THEN "bumping" ELSE "other"
    /\ touched' = IF txn' = "other" THEN NoTouch
                  ELSE IF r.ret = Ok(TRUE)
                  THEN MapInsert(touched, <<op, id>>, Touches(<<op, id>>) + 1)
                  ELSE touched
    /\ cyclic' = (cyclic /\ txn = "bumping" /\ touched = NoTouch
                  /\ r.ret = Ok(TRUE))
    /\ arg' = NoArg
    /\ UNCHANGED <<md_save, pc, instruments, dependencies, origin, base>>

BumpSpot ==
    \E id \in Ids, bump \in BumpSizes :
        Bumped("bump_spot", id, bump, bump_spot(P, dependencies, id, bump, save))

BumpYield ==
    \E id \in Ids, bump \in BumpSizes :
        Bumped("bump_yield", id, bump, bump_yield(P, dependencies, id, bump, save))

BumpBorrow ==
    \E id \in Ids, bump \in BumpSizes :
        Bumped("bump_borrow", id, bump, bump_borrow(P, dependencies, id, bump, save))

BumpDivs ==
    \E id \in Ids, bump \in BumpSizes :
        Bumped("bump_divs", id, bump, bump_divs(P, dependencies, id, bump, save))

BumpVol ==
    \E id \in Ids, bump \in BumpSizes :
        Bumped("bump_vol", id, bump, bump_vol(P, dependencies, id, bump, save))

BumpDiscountDate ==
    \E replacement \in Dates :
        Bumped("bump_discount_date", "", replacement,
               bump_discount_date(P, replacement, save))

Restore ==
    /\ pc = "ready"
    /\ LET r == PricingContextPrefetch_restore(P, dependencies,
                                                Saveable("SavedPrefetch", save))
       IN  /\ SetP(r.p)
           /\ result' = Call("restore", "", 0, r.ret)
    /\ txn' = IF txn = "bumping" THEN "restored" ELSE "other"
    /\ touched' = IF txn' = "other" THEN NoTouch ELSE touched
    /\ cyclic' = (cyclic /\ txn = "bumping" /\ TotalTouches = 1)
    /\ arg' = NoArg
    /\ UNCHANGED <<md_save, pc, instruments, dependencies, save, nbumps, origin,
                   base>>

\* SelfPricer::bump_time with any BumpTime.
BumpTime ==
    /\ pc = "ready"
    /\ \E bump \in BumpTimes :
         LET r == bump_time(P, bump)
         IN  /\ SetP(r.p)
             /\ result' = Call("bump_time", "", bump, r.ret)
    /\ txn' = "other"
    /\ touched' = NoTouch
    /\ cyclic' = FALSE
    /\ arg' = NoArg
    /\ UNCHANGED <<md_save, pc, instruments, dependencies, save, nbumps, origin,
                   base>>

Clear ==
    /\ pc = "ready"
    /\ save' = SavedPrefetch_clear(save)
    /\ result' = Call("clear", "", 0, Ok(TRUE))
    /\ base' = P
    /\ touched' = NoTouch
    /\ txn' = "bumping"
    /\ cyclic' = (cyclic /\ txn = "restored")
    /\ arg' = NoArg
    /\ UNCHANGED <<market_data, md_save, pc, instruments, other, dependencies,
                   context, forward_curves, vol_surfaces, nbumps, origin>>

RefetchAll ==
    /\ pc = "ready"
    /\ \E order \in Orders(dependencies) :
         LET r == refetch_all(P, dependencies, order)
         IN  /\ SetP(r.p)
             /\ result' = Call("refetch_all", "", 0, r.ret)
    /\ txn' = "other"
    /\ touched' = NoTouch
    /\ cyclic' = FALSE
    /\ arg' = NoArg
    /\ UNCHANGED <<md_save, pc, instruments, dependencies, save, nbumps, origin,
                   base>>

Next ==
    \/ BumpSpot
    \/ BumpYield
    \/ BumpBorrow
    \/ BumpDivs
    \/ BumpVol
    \/ BumpDiscountDate
    \/ Restore
    \/ Clear
    \/ RefetchAll
    \/ BumpTime

Spec == Init /\ [][Next]_vars

\* The reads of the PricingContext interface.  The instruments a caller may
\* hand to a read are the equities, under either credit id.
CallerInstruments == {SameCredit[i] : i \in InstIds} \cup {OwnCredit[i] : i \in InstIds}

Read(op, id, ret) ==
    /\ pc = "ready"
    /\ result' = Call(op, id, 0, ret)
    /\ arg' = NoArg
    /\ UNCHANGED <<market_data, md_save, pc, instruments, other, context,
                   dependencies, forward_curves, vol_surfaces, save, nbumps,
                   origin, base, touched, txn, cyclic>>

ReadForwardCurve ==
    \E instrument \in CallerInstruments, hwm \in {5, 7} :
        Read("forward_curve", instrument.id,
             Prefetch_forward_curve(P, instrument, hwm))

ReadVolSurface ==
    \E instrument \in CallerInstruments, hwm \in {5, 7} :
      \E forward \in {forward_curves[i] : i \in DOMAIN forward_curves} :
        Read("vol_surface", instrument.id,
             Prefetch_vol_surface(P, instrument, forward, hwm))

ReadSpot == \E id \in Ids : Read("spot", id, Prefetch_spot(P, id))

ReadYieldCurve ==
    \E id \in Ids : Read("yield_curve", id, Prefetch_yield_curve(P, id))

ReadDates ==
    \/ Read("spot_date", "", Ok(Prefetch_spot_date(P)))
    \/ Read("discount_date", "", Ok(Prefetch_discount_date(P)))
    \/ Read("correlation", "", Prefetch_correlation(P))

NextRead ==
    \/ BumpSpot
    \/ BumpVol
    \/ BumpDiscountDate
    \/ Restore
    \/ ReadForwardCurve
    \/ ReadVolSurface
    \/ ReadSpot
    \/ ReadYieldCurve
    \/ ReadDates

\* Bumps and restores interleaved with the reads of the pricing context.
SpecRead == Init /\ [][NextRead]_vars

\* The ledgers a caller holds: the pricer's SavedPrefetch and the SavedData
\* of the plain market data.
Ledgers == {Saveable("SavedPrefetch", save), Saveable("SavedData", md_save)}

\* restore on the pricer with any ledger the caller holds.
RestoreAny ==
    /\ pc = "ready"
    /\ \E any_saved \in Ledgers :
         LET r == PricingContextPrefetch_restore(P, dependencies, any_saved)
         IN  /\ SetP(r.p)
             /\ result' = Call("restore", any_saved.type, 0, r.ret)
    /\ txn' = "other"
    /\ touched' = NoTouch
    /\ cyclic' = FALSE
    /\ arg' = NoArg
    /\ UNCHANGED <<md_save, pc, instruments, dependencies, save, nbumps, origin,
                   base>>

\* bump_spot on the plain market data with its own SavedData.
MdBumpSpot ==
    /\ nbumps < MaxBumps
    /\ nbumps' = nbumps + 1
    /\ \E id \in Ids, bump \in BumpSizes :
         LET r == MarketData_bump_spot(market_data, id, bump, md_save)
         IN  /\ market_data' = r.md
             /\ md_save' = r.saved
             /\ result' = Call("md_bump_spot", id, bump, Ok(r.ret))
    /\ txn' = "other"
    /\ touched' = NoTouch
    /\ cyclic' = FALSE
    /\ arg' = NoArg
    /\ UNCHANGED <<pc, instruments, other, context, dependencies,
                   forward_curves, vol_surfaces, save, origin, base>>

\* restore on the plain market data with any ledger the caller holds.
MdRestoreAny ==
    /\ \E any_saved \in Ledgers :
         LET r == MarketData_Bumpable_restore(market_data, any_saved)
         IN  /\ market_data' = r.md
             /\ result' = Call("md_restore", any_saved.type, 0, r.ret)
    /\ txn' = "other"
    /\ touched' = NoTouch
    /\ cyclic' = FALSE
    /\ arg' = NoArg
    /\ UNCHANGED <<md_save, pc, instruments, other, context, dependencies,
                   forward_curves, vol_surfaces, save, nbumps, origin, base>>

NextLedgers ==
    \/ BumpSpot
    \/ MdBumpSpot
    \/ RestoreAny
    \/ MdRestoreAny

\* The pricer and a plain market data, each with its own ledger, restored
\* with either ledger.
SpecLedgers == Init /\ [][NextLedgers]_vars

\* The bump named op on the plain market data and on the cache.
MarketData_bump(op, md, id, bump, saved) ==
    CASE op = "bump_spot" -> MarketData_bump_spot(md, id, bump, saved)
      [] op = "bump_yield" -> MarketData_bump_yield(md, id, bump, saved)
      [] op = "bump_borrow" -> MarketData_bump_borrow(md, id, bump, saved)
      [] op = "bump_divs" -> MarketData_bump_divs(md, id, bump, saved)
      [] op = "bump_vol" -> MarketData_bump_vol(md, id, bump, saved)

Prefetch_bump(op, p, deps, id, bump, saved) ==
    CASE op = "bump_spot" -> bump_spot(p, deps, id, bump, saved)
      [] op = "bump_yield" -> bump_yield(p, deps, id, bump, saved)
      [] op = "bump_borrow" -> bump_borrow(p, deps, id, bump, saved)
      [] op = "bump_divs" -> bump_divs(p, deps, id, bump, saved)
      [] op = "bump_vol" -> bump_vol(p, deps, id, bump, saved)

\* to_saved_data (marketdata.rs): the ledger of a bump must be a SavedData.
to_saved_data(any_saved) ==
    IF downcast_ref(any_saved, "SavedData") # None THEN Ok(any_saved.ledger)
    ELSE Err(<<"Mismatching save space for bump market data">>)

\* to_saved (cache.rs): the ledger of a bump must be a SavedPrefetch.
to_saved(any_saved) ==
    IF downcast_ref(any_saved, "SavedPrefetch") # None THEN Ok(any_saved.ledger)
    ELSE Err(<<"Mismatching save space for bumped prefetch">>)

\* impl Bumpable for MarketData, the six bumps on a &mut Saveable: for
\* bump_discount_date bump is the replacement date.
MarketData_Bumpable_bump(op, md, id, bump, any_saved) ==
    IF ~to_saved_data(any_saved).ok
    THEN [ret |-> to_saved_data(any_saved), md |-> md, saved |-> any_saved]
    ELSE LET saved == Val(to_saved_data(any_saved))
             m == IF op = "bump_discount_date"
                  THEN MarketData_bump_discount_date(md, bump, saved)
                  ELSE MarketData_bump(op, md, id, bump, saved)
         IN  [ret |-> Ok(m.ret), md |-> m.md,
              saved |-> Saveable("SavedData", m.saved)]

\* A bump that hands the ledger's tables to the inner market data before it
\* looks at the ledger's type.
PricingContextPrefetch_Bumpable_bump_ChecksAfter(op, p, deps, id, bump, any_saved) ==
    IF any_saved.type = "SavedData"
    THEN LET m == IF op = "bump_discount_date"
                  THEN MarketData_bump_discount_date(p.context, bump,
                                                     any_saved.ledger)
                  ELSE MarketData_bump(op, p.context, id, bump,
                                       any_saved.ledger)
         IN  [ret |-> to_saved(any_saved),
              p |-> [p EXCEPT !.context = m.md],
              saved |-> Saveable("SavedData", m.saved)]
    ELSE LET saved == Val(to_saved(any_saved))
             r == IF op = "bump_discount_date"
                  THEN bump_discount_date(p, bump, saved)
                  ELSE Prefetch_bump(op, p, deps, id, bump, saved)
         IN  [ret |-> r.ret, p |-> r.p,
              saved |-> Saveable("SavedPrefetch", r.saved)]

\* impl Bumpable for PricingContextPrefetch, the six bumps on a &mut Saveable.
PricingContextPrefetch_Bumpable_bump(op, p, deps, id, bump, any_saved) ==
    IF ~to_saved(any_saved).ok
    THEN [ret |-> to_saved(any_saved), p |-> p, saved |-> any_saved]
    ELSE LET saved == Val(to_saved(any_saved))
             r == IF op = "bump_discount_date"
                  THEN bump_discount_date(p, bump, saved)
                  ELSE Prefetch_bump(op, p, deps, id, bump, saved)
         IN  [ret |-> r.ret, p |-> r.p,
              saved |-> Saveable("SavedPrefetch", r.saved)]

\* The id and the bump a caller hands to the bump named op: a replacement
\* date, or a bump that changes the value.
BumpArgs(op) ==
    IF op = "bump_discount_date" THEN {""} \X Dates ELSE Ids \X {1}

AllBumpOps ==
    {"bump_spot", "bump_yield", "bump_borrow", "bump_divs", "bump_vol",
     "bump_discount_date"}

\* The ledger the caller holds after a call that was handed any_saved.
Handed(any_saved, saved) ==
    /\ save' = IF any_saved.type = "SavedPrefetch" THEN saved.ledger ELSE save
    /\ md_save' = IF any_saved.type = "SavedData" THEN saved.ledger ELSE md_save

\* A bump on the pricer with any ledger the caller holds.
BumpAny ==
    /\ pc = "ready"
    /\ nbumps < MaxBumps
    /\ nbumps' = nbumps + 1
    /\ \E op \in AllBumpOps, any_saved \in Ledgers :
       \E a \in BumpArgs(op) :
         LET r == PricingContextPrefetch_Bumpable_bump(op, P, dependencies,
                                                       a[1], a[2], any_saved)
         IN  /\ SetP(r.p)
             /\ Handed(any_saved, r.saved)
             /\ result' = Call(op, a[1], a[2], r.ret)
             /\ arg' = [NoArg EXCEPT !.context = any_saved.type]
    /\ txn' = "other"
    /\ touched' = NoTouch
    /\ cyclic' = FALSE
    /\ UNCHANGED <<pc, instruments, dependencies, origin, base>>

\* A bump on the plain market data with any ledger the caller holds.
MdBumpAny ==
    /\ nbumps < MaxBumps
    /\ nbumps' = nbumps + 1
    /\ \E op \in AllBumpOps, any_saved \in Ledgers :
       \E a \in BumpArgs(op) :
         LET r == MarketData_Bumpable_bump(op, market_data, a[1], a[2],
                                           any_saved)
         IN  /\ market_data' = r.md
             /\ Handed(any_saved, r.saved)
             /\ result' = Call(op, a[1], a[2], r.ret)
             /\ arg' = [NoArg EXCEPT !.context = any_saved.type,
                                     !.instrument = [id |-> "market_data"]]
    /\ txn' = "other"
    /\ touched' = NoTouch
    /\ cyclic' = FALSE
    /\ UNCHANGED <<pc, instruments, other, context, dependencies,
                   forward_curves, vol_surfaces, origin, base>>

NextBumpLedgers ==
    \/ BumpAny
    \/ MdBumpAny
    \/ RestoreAny

\* The pricer and a plain market data, each with its own ledger, bumped with
\* either ledger.
SpecBumpLedgers == Init /\ [][NextBumpLedgers]_vars

\* refetch called by the holder of the cache, with any flags, for an
\* instrument id or an id that has no forward.
Refetch ==
    /\ pc = "ready"
    /\ \E id \in InstIds \cup {"X"}, bumped_forward \in BOOLEAN,
          bumped_vol \in BOOLEAN :
         LET r == refetch(P, dependencies, id, bumped_forward, bumped_vol, save)
         IN  /\ SetP(r.p)
             /\ save' = r.saved
             /\ result' = Call("refetch", id, 0, r.ret)
             /\ arg' = [instrument |-> [id |-> id], context |-> "",
                        bumped_forward |-> bumped_forward,
                        bumped_vol |-> bumped_vol]
    /\ txn' = "other"
    /\ touched' = NoTouch
    /\ cyclic' = FALSE
    /\ UNCHANGED <<md_save, pc, instruments, dependencies, nbumps, origin,
                   base>>

NextRefetch ==
    \/ BumpSpot
    \/ BumpBorrow
    \/ Restore
    \/ Refetch

\* The cache bumped, restored and refetched by hand.
SpecRefetch == Init /\ [][NextRefetch]_vars

\* The cache with its SavedPrefetch and the plain market data with its
\* SavedData are given the same call: r is what the cache's call returned,
\* m what the market data's did.
Lockstep(op, id, bump, r, m) ==
    /\ pc = "ready"
    /\ context' = r.p.context
    /\ forward_curves' = r.p.forward_curves
    /\ vol_surfaces' = r.p.vol_surfaces
    /\ save' = r.saved
    /\ market_data' = m.md
    /\ md_save' = m.saved
    /\ result' = Call(op, id, bump, r.ret)
    /\ arg' = NoArg
    /\ cyclic' = FALSE
    /\ UNCHANGED <<pc, instruments, other, dependencies, origin>>

LockstepBump ==
    /\ nbumps < MaxBumps
    /\ nbumps' = nbumps + 1
    /\ \E op \in {"bump_spot", "bump_yield", "bump_borrow", "bump_divs",
                   "bump_vol"}, id \in Ids, bump \in BumpSizes :
         LET r == Prefetch_bump(op, P, dependencies, id, bump, save)
             m == MarketData_bump(op, market_data, id, bump, md_save)
         IN  /\ Lockstep(op, id, bump, r, m)
             /\ txn' = IF txn = "bumping" /\ r.ret.ok THEN "bumping" ELSE "other"
             /\ touched' = IF txn' = "other" THEN NoTouch
                           ELSE IF r.ret = Ok(TRUE)
                           THEN MapInsert(touched, <<op, id>>,
                                          Touches(<<op, id>>) + 1)
                           ELSE touched
    /\ UNCHANGED base

LockstepBumpDiscountDate ==
    /\ nbumps < MaxBumps
    /\ nbumps' = nbumps + 1
    /\ \E replacement \in Dates :
         LET r == bump_discount_date(P, replacement, save)
             m == MarketData_bump_discount_date(market_data, replacement,
                                                md_save)
         IN  Lockstep("bump_discount_date", "", replacement, r, m)
    /\ txn' = IF txn = "bumping" THEN "bumping" ELSE "other"
    /\ touched' = IF txn' = "other" THEN NoTouch ELSE touched
    /\ UNCHANGED base

LockstepRestore ==
    /\ LET r == PricingContextPrefetch_restore(P, dependencies,
                                                Saveable("SavedPrefetch", save))
           m == MarketData_Bumpable_restore(market_data,
                                            Saveable("SavedData", md_save))
       IN  Lockstep("restore", "", 0,
                    [ret |-> r.ret, p |-> r.p, saved |-> save],
                    [md |-> m.md, saved |-> md_save])
    /\ txn' = IF txn = "bumping" THEN "restored" ELSE "other"
    /\ touched' = IF txn' = "other" THEN NoTouch ELSE touched
    /\ UNCHANGED <<nbumps, base>>

LockstepClear ==
    /\ Lockstep("clear", "", 0,
                [ret |-> Ok(TRUE), p |-> P, saved |-> SavedPrefetch_clear(save)],
                [md |-> market_data, saved |-> SavedData_clear(md_save)])
    /\ base' = P
    /\ touched' = NoTouch
    /\ txn' = "bumping"
    /\ UNCHANGED nbumps

NextLockstep ==
    \/ LockstepBump
    \/ LockstepBumpDiscountDate
    \/ LockstepRestore
    \/ LockstepClear

\* The same bumps, restores and clears on the cache and on a plain market
\* data of the same inputs.
SpecLockstep == Init /\ [][NextLockstep]_vars

\* The assets a caller prices: an id with a spot and no yield curve ("A") or
\* with a yield curve and no spot ("X"), settling one or two days after the
\* spot date.
Settlements == {1, 2}

Equities ==
    {Equity_new(id, credit_id, settlement) :
        id \in {"A", "X"}, credit_id \in {"A", "X"}, settlement \in Settlements}

\* Zero coupons that pay on or off the settlement date of the spot date.
ZeroCoupons ==
    {ZeroCoupon_new("Z", credit_id, payment_date, settlement) :
        credit_id \in {"A", "X"}, payment_date \in Dates,
        settlement \in Settlements}

Assets ==
    Equities \cup ZeroCoupons
    \cup {Currency_new(id, settlement) :
            id \in {"A", "X"}, settlement \in Settlements}
    \cup {CreditEntity_new(id, settlement) :
            id \in {"A", "X"}, settlement \in Settlements}

\* The caller's view of the plain market data and of the cache.
AsContext(type) ==
    IF type = "MarketData" THEN PricingContext("MarketData", market_data)
    ELSE PricingContext("PricingContextPrefetch", P)

\* A call that reads only: ret is what it returned for instrument in the
\* context named by type.
Priced(op, instrument, type, ret) ==
    /\ result' = Call(op, instrument.id, 0, ret)
    /\ arg' = [instrument |-> instrument, context |-> type]
    /\ UNCHANGED <<market_data, pc, context, dependencies, forward_curves,
                   vol_surfaces, save, md_save, instruments, other, nbumps,
                   origin, base, txn, touched, cyclic>>

\* priceable.price(context) of one asset against the market data.
PriceOnMarketData ==
    \E instrument \in Assets :
        Priced("price", instrument, "MarketData",
               Priceable_price(instrument, AsContext("MarketData")))

\* priceable.price(context) of one asset against the cache.
PriceOnPrefetch ==
    /\ pc = "ready"
    /\ \E instrument \in Assets :
         Priced("price", instrument, "PricingContextPrefetch",
                Priceable_price(instrument, AsContext("PricingContextPrefetch")))

\* market_data.forward_curve(instrument, high_water_mark)
MdForwardCurve ==
    \E instrument \in Equities :
        Priced("forward_curve", instrument, "MarketData",
               MarketData_forward_curve(market_data, instrument, 5))

NextPrice ==
    \/ BumpYield
    \/ BumpDiscountDate
    \/ Restore
    \/ PriceOnMarketData
    \/ PriceOnPrefetch
    \/ MdForwardCurve

\* Asset prices and on-demand forwards, read between bumps of the cache.
SpecPrice == Init /\ [][NextPrice]_vars

\* The instruments handed to the factory: assets, an instrument that is not
\* priceable, and composites whose fixing gives weighted components.
Portfolios ==
    {  Equity_new("A", "X", 2),
       Currency_new("X", 1),
       Unpriceable_new("U"),
       Composite_new("C1", Ok(Some(<<<<2, Equity_new("A", "X", 1)>>,
                                     <<3, Currency_new("X", 2)>>,
                                     <<1, Equity_new("B", "Y", 2)>>>>))),
       \* two components that are not priceable
       Composite_new("C2", Ok(Some(<<<<1, Equity_new("A", "X", 2)>>,
                                     <<1, Unpriceable_new("U")>>,
                                     <<1, Unpriceable_new("V")>>>>))),
       \* components whose prices fail: no yield curve "A", no spot "X"
       Composite_new("C3", Ok(Some(<<<<1, Equity_new("A", "X", 1)>>,
                                     <<2, Equity_new("A", "A", 1)>>,
                                     <<1, Equity_new("X", "X", 1)>>>>))),
       Composite_new("C4", Ok(Some(<<>>))),
       Composite_new("C5", Ok(None)),
       Composite_new("C6", Err(<<"Missing fixing">>)) }

\* SelfPricerFactory::new on an instrument and the inputs.
InitPricer ==
    \E in \in Inputs : \E order \in Orders(in.deps) :
    \E instrument \in Portfolios :
      LET r == SelfPricerFactory_new("context", instrument, in.md, in.deps,
                                     order)
          p == IF r.ok THEN Val(r).context
               ELSE [context |-> MarketData_clone(in.md, "context"),
                     forward_curves |-> EmptyMap, vol_surfaces |-> EmptyMap]
      IN  /\ market_data = in.md
          /\ dependencies = in.deps
          /\ pc = IF r.ok THEN "ready" ELSE "failed"
          /\ context = p.context
          /\ forward_curves = p.forward_curves
          /\ vol_surfaces = p.vol_surfaces
          /\ save = SavedPrefetch_new
          /\ md_save = SavedData_new
          /\ instruments = IF r.ok THEN Val(r).instruments ELSE <<>>
          /\ other = [context |-> MarketData_clone(in.md, "other"),
                      forward_curves |-> EmptyMap, vol_surfaces |-> EmptyMap]
          /\ arg = [instrument |-> instrument, context |-> "MarketData"]
          /\ result = Call("new", instrument.id, 0,
                           IF r.ok THEN Ok(TRUE) ELSE r)
          /\ nbumps = 0
          /\ origin = p
          /\ base = p
          /\ touched = NoTouch
          /\ txn = "bumping"
          /\ cyclic = TRUE

\* pricer.price()
Price ==
    /\ pc = "ready"
    /\ result' = Call("price", "", 0,
                      SelfPricer_price([instruments |-> instruments,
                                        context |-> P]))
    /\ arg' = NoArg
    /\ UNCHANGED <<market_data, pc, context, dependencies, forward_curves,
                   vol_surfaces, save, md_save, instruments, other, nbumps,
                   origin, base, txn, touched, cyclic>>

NextPricer ==
    \/ BumpSpot
    \/ BumpYield
    \/ BumpDiscountDate
    \/ Restore
    \/ Price

\* A SelfPricer: constructed by the factory, bumped, restored and priced.
SpecPricer == InitPricer /\ [][NextPricer]_vars

\* What one component declares to the collector (risk/dependencies.rs,
\* DependencyCollector::spot and the dependencies() of the instruments): an
\* equity declares its own forward; a European declares the forward and the
\* vol surface of its underlying; the other assets declare yield curves only.
forward_declarations(instrument) ==
    CASE instrument.type = "Equity" ->
            {Instrument(instrument.id, instrument.credit_id, "StickyStrike")}
      [] instrument.type = "SpotStartingEuropean" -> {instrument.equity}
      [] OTHER -> {}

vol_declarations(instrument) ==
    IF instrument.type = "SpotStartingEuropean" THEN {instrument.equity}
    ELSE {}

\* The dependency record collected from the components of `instrument`: an
\* underlying declared for its vol surface is the one kept under its id.
DependencyCollector_spot(instrument) ==
    LET fixed == fixed_instruments(instrument)
        components == {fixed[i][2] : i \in DOMAIN fixed}
        vol == UNION {vol_declarations(c) : c \in components}
        fwd == UNION {forward_declarations(c) : c \in components}
        ids == {e.id : e \in fwd}
        by_id == [id \in ids |->
                    IF \E e \in vol : e.id = id
                    THEN CHOOSE e \in vol : e.id = id
                    ELSE CHOOSE e \in fwd : e.id = id]
    IN  DependencyRecord(by_id, ids, {e.id : e \in vol})

\* Options and baskets over the two equities of the sample market data.
Europeans ==
    [id \in InstIds |->
        SpotStartingEuropean_new("O" \o id, IF id = "A" THEN "X" ELSE "Y",
            Instrument(id, "X", IF id = "A" THEN "StickyStrike"
                                ELSE "StickyDelta"), 2, 3)]

CollectedPortfolios ==
    {  Europeans["A"],
       Europeans["B"],
       Composite_new("K1", Ok(Some(<<<<2, Europeans["A"]>>,
                                     <<1, Europeans["B"]>>>>))),
       Composite_new("K2", Ok(Some(<<<<1, Equity_new("B", "X", 2)>>,
                                     <<3, Europeans["A"]>>,
                                     <<1, Currency_new("X", 1)>>>>))),
       Composite_new("K3", Ok(Some(<<<<1, Equity_new("A", "X", 2)>>,
                                     <<1, ZeroCoupon_new("Z", "Y", 3, 2)>>>>))) }

CollectedMarketData ==
    {  SampleMarketData(None, {}),
       SampleMarketData(Some(1), {}),
       SampleMarketData(None, {<<"vol_surfaces", "B">>}) }

\* SelfPricerFactory::new on an instrument, with the dependency record
\* collected from that instrument.
InitCollected ==
    \E md \in CollectedMarketData : \E instrument \in CollectedPortfolios :
    \E order \in Orders(DependencyCollector_spot(instrument)) :
      LET deps == DependencyCollector_spot(instrument)
          r == SelfPricerFactory_new("context", instrument, md, deps, order)
          p == IF r.ok THEN Val(r).context
               ELSE [context |-> MarketData_clone(md, "context"),
                     forward_curves |-> EmptyMap, vol_surfaces |-> EmptyMap]
      IN  /\ market_data = md
          /\ dependencies = deps
          /\ pc = IF r.ok THEN "ready" ELSE "failed"
          /\ context = p.context
          /\ forward_curves = p.forward_curves
          /\ vol_surfaces = p.vol_surfaces
          /\ save = SavedPrefetch_new
          /\ md_save = SavedData_new
          /\ instruments = IF r.ok THEN Val(r).instruments ELSE <<>>
          /\ other = [context |-> MarketData_clone(md, "other"),
                      forward_curves |-> EmptyMap, vol_surfaces |-> EmptyMap]
          /\ arg = [instrument |-> instrument, context |-> "MarketData"]
          /\ result = Call("new", instrument.id, 0,
                           IF r.ok THEN Ok(TRUE) ELSE r)
          /\ nbumps = 0
          /\ origin = p
          /\ base = p
          /\ touched = NoTouch
          /\ txn = "bumping"
          /\ cyclic = TRUE

NextCollected ==
    \/ BumpSpot
    \/ BumpYield
    \/ BumpBorrow
    \/ BumpDivs
    \/ BumpVol
    \/ BumpDiscountDate
    \/ Restore
    \/ Price

\* A SelfPricer over the dependencies its own instrument declares.
SpecCollected == InitCollected /\ [][NextCollected]_vars

\* A dependency record whose list for credit id X names B after A although
\* only A has a forward requirement: a yield bump of X rebuilds A's forward
\* and then fails on B.
PartialYield ==
    [DependencyRecord(SameCredit, {"A"}, {"A"})
        EXCEPT !.forward_id_from_credit_id =
                   [c \in {"X"} |-> <<"A", "B">>]]

RecoverInputs ==
    Inputs \cup {[md |-> SampleMarketData(d, {}), deps |-> PartialYield] :
                    d \in {None, Some(1)}}

InitRecover == InitFrom(RecoverInputs)

NextRecover ==
    \/ BumpSpot
    \/ BumpYield
    \/ BumpBorrow
    \/ BumpDivs
    \/ BumpVol
    \/ BumpDiscountDate
    \/ Restore
    \/ Clear

\* A pricer whose caller bumps, restores and clears one ledger, with bumps
\* that fail part of the way.
SpecRecover == InitRecover /\ [][NextRecover]_vars

----------------------------------------------------------------------------
(* Properties.                                                             *)

\* The table of the market data (and of the SavedData) a bump works on.
TableOf(op) ==
    CASE op = "bump_spot" -> "spots"
      [] op = "bump_yield" -> "yield_curves"
      [] op = "bump_borrow" -> "borrow_curves"
      [] op = "bump_divs" -> "dividends"
      [] op = "bump_vol" -> "vol_surfaces"

SlotBumpOps == BumpOps \ {"bump_discount_date"}
Tables == {TableOf(op) : op \in SlotBumpOps}

\* The bumps whose slot is an input of the forward of instrument id.
FeedsForward(id) ==
    {<<"bump_spot", id>>, <<"bump_divs", id>>, <<"bump_borrow", id>>,
     <<"bump_yield", dependencies.instruments[id].credit_id>>}

\* C1: restore round trip.  After any sequence of bumps that all returned Ok,
\* followed by restore, the market data, the discount date and the cached
\* forwards and vols are those of the moment the ledger was created or
\* cleared.
C1_RestoreRoundTrip ==
    (pc = "ready" /\ txn = "restored") => P = base

\* C2: no drift over cycles.  When the calls so far are cycles of exactly one
\* bump that returned Ok(true), then restore, then clear, the cache after the
\* restore and after the clear of every cycle is the cache as constructed, and
\* the cleared ledger is empty.
C2_NoDrift ==
    (pc = "ready" /\ cyclic) =>
        /\ txn = "restored" => P = origin
        /\ result.op = "clear" => (P = origin /\ save = SavedPrefetch_new)

\* Two one-bump cycles were completed.
C2_Witness ==
    /\ pc = "ready" /\ cyclic /\ result.op = "clear" /\ nbumps = 2

\* C3: first-touch snapshots.  Every raw-slot snapshot in the ledger is the
\* slot's value at the moment the ledger was created or cleared.
C3_FirstTouchSnapshot ==
    pc = "ready" =>
        \A t \in Tables : \A id \in DOMAIN save.saved_data[t] :
            save.saved_data[t][id] = base.context[t][id]

\* C4: pre-bump forward snapshot.  In a transaction of exactly two bumps that
\* returned Ok(true), on two different inputs of the forward of one
\* instrument, the ledger's forward snapshot is the forward cached when the
\* transaction began, and after restore the cached forward is that forward
\* and is the one the restored market data constructs.
C4_ForwardSnapshot ==
    \A id \in DOMAIN forward_curves :
        (/\ pc = "ready"
         /\ txn \in {"bumping", "restored"}
         /\ id \in DOMAIN dependencies.instruments
         /\ TotalTouches = 2
         /\ Cardinality(DOMAIN touched \cap FeedsForward(id)) = 2)
        =>
        /\ id \in DOMAIN save.forward_curves
        /\ save.forward_curves[id] = base.forward_curves[id]
        /\ txn = "restored" =>
              /\ forward_curves[id] = base.forward_curves[id]
              /\ Ok(forward_curves[id]) =
                    MarketData_forward_curve(context, dependencies.instruments[id],
                                             dependencies.forward_curves[id])

\* C5: restore is idempotent and leaves the ledger alone.  A restore step does
\* not change the ledger, and a second restore with the same ledger would
\* leave the cache as the first one left it.
C5_RestoreIdempotent ==
    [][result'.op = "restore" =>
          (save' = save /\ restore(P', dependencies', save') = P')]_vars

\* A restore with a ledger that holds the snapshots of a bump that changed
\* the spot of A and its forward.
C5_Witness ==
    /\ pc = "ready" /\ result.op = "restore"
    /\ "A" \in DOMAIN save.saved_data.spots
    /\ "A" \in DOMAIN save.forward_curves
    /\ Touches(<<"bump_spot", "A">>) = 1
    /\ P = base /\ P # origin

\* C6: no-op bump.  A bump of a spot, yield curve, borrow curve, dividend
\* stream or vol surface under an id that is not in the bumped table returns
\* Ok(false) and changes neither the market data, nor a cached forward or
\* vol, nor the ledger.
C6_NoOpBump ==
    [][(/\ result'.op \in SlotBumpOps
        /\ result'.id \notin DOMAIN context[TableOf(result'.op)])
       => (result'.ret = Ok(FALSE) /\ P' = P /\ save' = save)]_vars

\* A bump of the spot of an id that has neither a spot nor a cached forward
\* returned Ok(false).
C6_Witness ==
    /\ pc = "ready" /\ result.op = "bump_spot" /\ result.ret = Ok(FALSE)
    /\ result.id \notin DOMAIN context.spots
    /\ result.id \notin DOMAIN forward_curves

\* C7: bump step on a present slot.  The MarketData bump of an id present in
\* its table returns true, puts the slot's old value under that id into the
\* ledger table of the same kind, replaces exactly that slot by bump.apply of
\* the old value, and leaves every other slot, the spot date and the discount
\* date unchanged; this is the market data and SavedData the cache is left
\* with.
C7_BumpStep ==
    [][(/\ result'.op \in SlotBumpOps
        /\ result'.id \in DOMAIN context[TableOf(result'.op)])
       => LET t == TableOf(result'.op)
              id == result'.id
              m == MarketData_bump(result'.op, context, id, result'.bump,
                                   save.saved_data)
          IN  /\ m.ret = TRUE
              /\ m.md = [context EXCEPT
                            ![t][id] = BumpApply(result'.bump, context[t][id])]
              /\ m.saved = [save.saved_data EXCEPT
                               ![t] = MapInsert(@, id, context[t][id])]
              /\ context' = m.md
              /\ save'.saved_data = m.saved]_vars

\* A borrow curve was bumped by a bump that changes it.
C7_Witness ==
    /\ pc = "ready" /\ result.op = "bump_borrow" /\ result.bump = 1
    /\ result.ret = Ok(TRUE)
    /\ result.id \in DOMAIN save.saved_data.borrow_curves
    /\ context.borrow_curves[result.id] # save.saved_data.borrow_curves[result.id]

C9_PrefetchComplete ==
    pc = "ready" =>
        /\ DOMAIN dependencies.forward_curves \subseteq DOMAIN forward_curves
        /\ DOMAIN dependencies.vol_surfaces \subseteq DOMAIN vol_surfaces

ReadOps == {"forward_curve", "vol_surface", "spot", "yield_curve", "spot_date",
            "discount_date", "correlation"}

\* C10: a cache miss is an error.  forward_curve and vol_surface for an id
\* that is not in the cache table return the "incorrect dependencies" error
\* naming the kind and the id, whatever the inner market data holds; no read
\* changes the cache or the ledger; the other reads return what the inner
\* market data returns.
C10_CacheMissIsError ==
    [][result'.op \in ReadOps =>
        /\ P' = P /\ save' = save
        /\ (result'.op = "forward_curve" /\ result'.id \notin DOMAIN forward_curves)
              => result'.ret = Err(<<"Forward",
                     "not found (incorrect dependencies?):", result'.id>>)
        /\ (result'.op = "vol_surface" /\ result'.id \notin DOMAIN vol_surfaces)
              => result'.ret = Err(<<"Vol Surface",
                     "not found (incorrect dependencies?):", result'.id>>)
        /\ result'.op = "spot" => result'.ret = MarketData_spot(context, result'.id)
        /\ result'.op = "yield_curve" =>
              result'.ret = MarketData_yield_curve(context, result'.id)
        /\ result'.op = "spot_date" => result'.ret = Ok(context.spot_date)
        /\ result'.op = "discount_date" => result'.ret = Ok(context.discount_date)
        /\ result'.op = "correlation" =>
              result'.ret = MarketData_correlation(context)]_vars

\* forward_curve missed the cache for an equity whose forward the inner
\* market data can construct.
C10_Witness ==
    /\ pc = "ready" /\ result.op = "forward_curve" /\ ~result.ret.ok
    /\ result.id \in InstIds
    /\ \A instrument \in CallerInstruments :
          instrument.id = result.id =>
              MarketData_forward_curve(context, instrument, 5).ok

\* The forward the post-call market data constructs for a declared id at the
\* dependency record's forward high-water mark.
RebuiltForward(id) ==
    Val(MarketData_forward_curve(context', dependencies.instruments[id],
                                 dependencies.forward_curves[id]))

\* C11: spot, borrow and dividend bump dispatch.  A bump_spot, bump_borrow or
\* bump_divs on id X that returned Ok(true) replaces the cached forward of X
\* by the forward the post-bump market data constructs at the forward
\* high-water mark of X, and leaves every cached vol surface and the cached
\* forward of every other id unchanged.
C11_ForwardDispatch ==
    [][(/\ result'.op \in {"bump_spot", "bump_borrow", "bump_divs"}
        /\ result'.ret = Ok(TRUE))
       => /\ result'.id \in DOMAIN forward_curves
          /\ result'.id \in DOMAIN dependencies.forward_curves
          /\ forward_curves' =
                [forward_curves EXCEPT ![result'.id] = RebuiltForward(result'.id)]
          /\ vol_surfaces' = vol_surfaces]_vars

\* A dividend bump that changes the stream rebuilt the forward of an id that
\* also has a cached vol surface decorated with the forward.
C11_Witness ==
    /\ pc = "ready" /\ result.op = "bump_divs" /\ result.bump = 1
    /\ result.ret = Ok(TRUE)
    /\ forward_curves[result.id].divs = context.dividends[result.id]
    /\ forward_curves[result.id] # base.forward_curves[result.id]
    /\ result.id \in DOMAIN vol_surfaces
    /\ vol_surfaces[result.id].forward # None

\* C12: vol bump dispatch.  A bump_vol on id X that returned Ok(true) replaces
\* the cached vol surface of X by the surface the post-bump market data gives
\* for the currently cached forward of X and the vol high-water mark of X,
\* and leaves every cached forward and the cached vol surface of every other
\* id unchanged.
C12_VolDispatch ==
    [][(result'.op = "bump_vol" /\ result'.ret = Ok(TRUE))
       => /\ forward_curves' = forward_curves
          /\ DOMAIN vol_surfaces' = DOMAIN vol_surfaces
          /\ \A id \in DOMAIN vol_surfaces :
                vol_surfaces'[id] =
                    IF id = result'.id
                    THEN Val(MarketData_vol_surface(context',
                                 dependencies.instruments[id], forward_curves[id],
                                 dependencies.vol_surfaces[id]))
                    ELSE vol_surfaces[id]]_vars

\* A vol bump that changes the surface rebuilt a cached sticky-delta surface
\* after the forward of the same id had been rebuilt by a spot bump.
C12_Witness ==
    /\ pc = "ready" /\ result.op = "bump_vol" /\ result.bump = 1
    /\ result.ret = Ok(TRUE)
    /\ result.id \in DOMAIN vol_surfaces
    /\ vol_surfaces[result.id].surface = context.vol_surfaces[result.id]
    /\ vol_surfaces[result.id].surface # base.vol_surfaces[result.id].surface
    /\ vol_surfaces[result.id].forward = Some(forward_curves[result.id])
    /\ forward_curves[result.id] # base.forward_curves[result.id]

\* The instrument ids forward_id_by_credit_id lists for a credit id.
ForwardIdsOf(credit_id) ==
    LET v == forward_id_by_credit_id(dependencies, credit_id)
    IN  {v[i] : i \in DOMAIN v}

\* C13: yield bump dispatch.  A bump_yield on credit id C that returned Ok
\* returns true exactly when the yield curve C exists; when it returned
\* Ok(true) the cached forward of each id listed by forward_id_by_credit_id(C)
\* is rebuilt from the post-bump market data and snapshotted, the cached
\* forward of every other id and every cached vol surface are unchanged; when
\* the list is empty no cached forward or vol changes and the ledger's forward
\* table is unchanged.
C13_YieldDispatch ==
    [][(result'.op = "bump_yield" /\ result'.ret.ok)
       => LET ids == ForwardIdsOf(result'.id)
          IN  /\ result'.ret = Ok(TRUE) <=>
                    result'.id \in DOMAIN context.yield_curves
              /\ vol_surfaces' = vol_surfaces
              /\ save'.vol_surfaces = save.vol_surfaces
              /\ DOMAIN forward_curves' = DOMAIN forward_curves
              /\ \A id \in DOMAIN forward_curves :
                    forward_curves'[id] =
                        IF id \in ids /\ result'.ret = Ok(TRUE)
                        THEN RebuiltForward(id) ELSE forward_curves[id]
              /\ result'.ret = Ok(TRUE) =>
                    /\ ids \subseteq DOMAIN forward_curves
                    /\ DOMAIN save'.forward_curves =
                          (DOMAIN save.forward_curves) \cup ids
              /\ ids = {} =>
                    /\ forward_curves' = forward_curves
                    /\ save'.forward_curves = save.forward_curves]_vars

\* A yield bump that changes the curve rebuilt the forwards of the two
\* instruments of its credit id.
C13_Witness ==
    /\ pc = "ready" /\ result.op = "bump_yield" /\ result.bump = 1
    /\ result.ret = Ok(TRUE)
    /\ Cardinality(ForwardIdsOf(result.id)) = 2
    /\ \A id \in ForwardIdsOf(result.id) :
          /\ forward_curves[id].yield_curve = context.yield_curves[result.id]
          /\ forward_curves[id] # base.forward_curves[id]

\* C14: discount-date bump frame.  bump_discount_date changes only the
\* discount date of the inner market data and the ledger's discount-date
\* snapshot and replaced flag: no raw slot table, no cached forward or vol
\* surface and no snapshot table of the ledger is modified.
C14_DiscountDateFrame ==
    [][result'.op = "bump_discount_date"
       => /\ context' = [context EXCEPT !.discount_date = context'.discount_date]
          /\ forward_curves' = forward_curves
          /\ vol_surfaces' = vol_surfaces
          /\ save' = [save EXCEPT
                !.saved_data.discount_date = save'.saved_data.discount_date,
                !.saved_data.replaced_discount_date =
                    save'.saved_data.replaced_discount_date]]_vars

\* The discount date was replaced while the ledger held the snapshots of an
\* earlier spot bump.
C14_Witness ==
    /\ pc = "ready" /\ result.op = "bump_discount_date"
    /\ result.ret = Ok(TRUE)
    /\ save.saved_data.replaced_discount_date
    /\ context.discount_date # base.context.discount_date
    /\ save.saved_data.spots # EmptyMap
    /\ save.forward_curves # EmptyMap
    /\ forward_curves # base.forward_curves

\* C15: discount-date bump return value.  bump_discount_date(d) never returns
\* an error, sets the discount date to Some(d), and returns true exactly when
\* the discount date before the call (absent or not) differs from Some(d).
C15_DiscountDateReturn ==
    [][result'.op = "bump_discount_date"
       => /\ result'.ret.ok
          /\ context'.discount_date = Some(result'.bump)
          /\ result'.ret = Ok(TRUE) <=>
                context.discount_date # Some(result'.bump)]_vars

\* The discount date was replaced by the date it already was.
C15_Witness ==
    /\ pc = "ready" /\ result.op = "bump_discount_date"
    /\ result.ret = Ok(FALSE)
    /\ context.discount_date = Some(result.bump)
    /\ save.saved_data.discount_date = Some(result.bump)
    /\ save.saved_data.replaced_discount_date

\* C16: discount-date restore.  After bumps that all returned Ok, followed by
\* restore, the discount date is the one of the moment the ledger was created
\* or cleared (absent when it was absent), whether the ledger recorded
\* discount-date bumps or none.
C16_DiscountDateRestore ==
    (pc = "ready" /\ txn = "restored") =>
        context.discount_date = base.context.discount_date

\* What restore makes of one table: the ledger's snapshot where it has one,
\* the current value elsewhere, on the ids the table had.
RestoredTable(table, snapshots) ==
    [id \in DOMAIN table |->
        IF id \in DOMAIN snapshots THEN snapshots[id] ELSE table[id]]

\* C17: restore frame.  restore overwrites exactly the raw slots, cached
\* forwards and cached vol surfaces that have a snapshot in the ledger, and
\* the discount date only if the replaced flag is set; every other slot and
\* cached artifact and the spot date keep their value, and no table gains or
\* loses an id.
C17_RestoreFrame ==
    [][result'.op = "restore"
       => /\ context'.spot_date = context.spot_date
          /\ context'.discount_date =
                IF save.saved_data.replaced_discount_date
                THEN save.saved_data.discount_date ELSE context.discount_date
          /\ \A t \in Tables :
                context'[t] = RestoredTable(context[t], save.saved_data[t])
          /\ forward_curves' = RestoredTable(forward_curves, save.forward_curves)
          /\ vol_surfaces' = RestoredTable(vol_surfaces, save.vol_surfaces)]_vars

\* A restore put back the spot and forward of A, snapshotted in the ledger,
\* and kept the spot and forward of B, bumped before the ledger was cleared.
C17_Witness ==
    /\ pc = "ready" /\ result.op = "restore"
    /\ DOMAIN save.saved_data.spots = {"A"}
    /\ DOMAIN save.forward_curves = {"A"}
    /\ context.spots["A"] = origin.context.spots["A"]
    /\ forward_curves["A"] = origin.forward_curves["A"]
    /\ "B" \in DOMAIN forward_curves
    /\ context.spots["B"] # origin.context.spots["B"]
    /\ forward_curves["B"] # origin.forward_curves["B"]
    /\ ~save.saved_data.replaced_discount_date

\* C18: clear empties the ledger.  After clear, in any state of the ledger,
\* every snapshot table is empty, the discount-date snapshot is absent and
\* the replaced flag is false; clear does not modify the pricer, and a restore
\* with the cleared ledger would change nothing in it.
C18_ClearEmpties ==
    [][result'.op = "clear"
       => /\ save' = SavedPrefetch_new
          /\ save'.saved_data = SavedData_new
          /\ P' = P
          /\ restore(P', dependencies', save') = P']_vars

\* A ledger that held a discount-date snapshot and the snapshots of a spot
\* bump was cleared without a restore.
C18_Witness ==
    /\ pc = "ready" /\ result.op = "clear"
    /\ save = SavedPrefetch_new
    /\ context.discount_date # origin.context.discount_date
    /\ context.spots # origin.context.spots
    /\ forward_curves # origin.forward_curves
    /\ base = P

\* C20: time bump is unsupported.  bump_time returns the not-supported error
\* for every BumpTime and in every state of the pricer, and leaves the market
\* data, the spot date, the cached forwards and vols and the ledger
\* unchanged.
C20_BumpTimeUnsupported ==
    [][result'.op = "bump_time"
       => /\ result'.ret = Err(<<"Time bumps not yet supported">>)
          /\ P' = P
          /\ context'.spot_date = context.spot_date
          /\ save' = save]_vars

\* bump_time failed on a pricer whose spot and forward were bumped.
C20_Witness ==
    /\ pc = "ready" /\ result.op = "bump_time" /\ ~result.ret.ok
    /\ context.spots # origin.context.spots
    /\ forward_curves # origin.forward_curves
    /\ save.forward_curves # EmptyMap

\* C19: restore rejects a mismatched ledger.  restore on the pricer with a
\* ledger that is not a SavedPrefetch, and restore on a plain MarketData with
\* a ledger that is not a SavedData, return the type-mismatch error and leave
\* the market data, the discount date, the cached forwards and vols and both
\* ledgers unchanged.
C19_RestoreRejectsMismatch ==
    [][/\ (result'.op = "restore" /\ result'.id = "SavedData")
          => /\ result'.ret = Err(<<"Mismatching save space for restore">>)
             /\ P' = P
       /\ (result'.op = "md_restore" /\ result'.id = "SavedPrefetch")
          => /\ result'.ret = Err(<<"Mismatching save space for restore">>)
             /\ market_data' = market_data
       /\ result'.op \in {"restore", "md_restore"}
          => (save' = save /\ md_save' = md_save)]_vars

\* The pricer refused a SavedData whose spot snapshot differs from the
\* pricer's spot.
C19_Witness ==
    /\ pc = "ready" /\ result.op = "restore" /\ result.id = "SavedData"
    /\ ~result.ret.ok
    /\ \E id \in DOMAIN md_save.spots : md_save.spots[id] # context.spots[id]

\* The market data lacks an input of the forward of an instrument of the
\* forward requirements, or the vol surface of one that also has a vol
\* requirement.
MissingData(md, deps) ==
    \E id \in DOMAIN deps.forward_curves :
        \/ id \notin DOMAIN md.spots
        \/ id \notin DOMAIN md.dividends
        \/ id \notin DOMAIN md.borrow_curves
        \/ deps.instruments[id].credit_id \notin DOMAIN md.yield_curves
        \/ (id \in DOMAIN deps.vol_surfaces /\ id \notin DOMAIN md.vol_surfaces)

\* C23: construction failures surface.  When the market data handed to the
\* constructor lacks, for an instrument of the forward requirements, the spot,
\* the dividend stream, the borrow curve or the yield curve of its credit id,
\* or the vol surface of one that has a vol requirement, the constructor
\* returns an error and there is no cache.
C23_ConstructionFailuresSurface ==
    (result.op = "new" /\ MissingData(market_data, dependencies))
        => (pc = "failed" /\ ~result.ret.ok)

\* Construction failed on market data that lacks only the vol surface of A.
C23_Witness ==
    /\ result.op = "new" /\ pc = "failed"
    /\ result.ret = Err(<<"Vol surface", "not found:", "A">>)
    /\ "A" \notin DOMAIN market_data.vol_surfaces
    /\ "A" \in DOMAIN dependencies.vol_surfaces
    /\ MarketData_forward_curve(market_data, dependencies.instruments["A"],
                                dependencies.forward_curves["A"]).ok

\* C26 as claimed: a bump_vol on an id whose vol surface is in the inner
\* market data and whose forward is cached, but which has no cached vol
\* surface, returns an error.
C26_VolRefetchWithoutCachedVol ==
    [][(/\ result'.op = "bump_vol"
        /\ result'.id \in DOMAIN context.vol_surfaces
        /\ result'.id \in DOMAIN forward_curves
        /\ result'.id \notin DOMAIN vol_surfaces)
       => ~result'.ret.ok]_vars

\* C27: bump of an undeclared id errors after mutating.  A bump_spot,
\* bump_borrow, bump_divs or bump_vol on an id that is in the bumped table of
\* the inner market data but has no cached forward returns an error; the slot
\* holds the bumped value and the ledger its previous value, and nothing else
\* has changed.
C27_UndeclaredBumpMutates ==
    [][(/\ result'.op \in {"bump_spot", "bump_borrow", "bump_divs", "bump_vol"}
        /\ result'.id \in DOMAIN context[TableOf(result'.op)]
        /\ result'.id \notin DOMAIN forward_curves)
       => LET t == TableOf(result'.op)
              id == result'.id
          IN  /\ result'.ret = Err(<<"Cannot find prefetched forward">>)
              /\ context' = [context EXCEPT
                                ![t][id] = BumpApply(result'.bump, context[t][id])]
              /\ save' = [save EXCEPT
                             !.saved_data[t] = MapInsert(@, id, context[t][id])]
              /\ forward_curves' = forward_curves
              /\ vol_surfaces' = vol_surfaces]_vars

\* A spot bump failed on an id the instrument did not declare, and left the
\* spot bumped.
C27_Witness ==
    /\ pc = "ready" /\ result.op = "bump_spot" /\ result.bump = 1
    /\ ~result.ret.ok
    /\ result.id \in DOMAIN context.spots
    /\ result.id \notin DOMAIN forward_curves
    /\ context.spots[result.id] # base.context.spots[result.id]
    /\ save.saved_data.spots[result.id] = base.context.spots[result.id]

\* C24: the cache owns its market-data clone.  No bump, restore, clear,
\* refetch or time bump through the pricer changes a slot or the discount
\* date of the market data that was handed to its constructor, or the state
\* of another cache constructed from the same market data.
C24_CacheOwnsClone ==
    [][market_data' = market_data /\ other' = other]_vars

\* The pricer's spot, discount date and forwards were bumped; the market data
\* handed to the constructor and the other cache are as they were.
C24_Witness ==
    /\ pc = "ready"
    /\ context.spots # market_data.spots
    /\ context.discount_date # market_data.discount_date
    /\ forward_curves # other.forward_curves
    /\ other.context.spots = market_data.spots
    /\ other.context.discount_date = market_data.discount_date
    /\ other.forward_curves = origin.forward_curves
    /\ market_data.spots = origin.context.spots

\* C25: prefetching is behaviour-preserving.  When the cache and a plain
\* market data of the same inputs are given the same bumps, restores and
\* clears, then after every step the cache's forward_curve and vol_surface
\* for every declared instrument are what the plain market data constructs on
\* demand, and spot, yield_curve and discount_date read the same.
C25_PrefetchRefines ==
    pc = "ready" =>
        /\ \A id \in DOMAIN dependencies.forward_curves :
              Prefetch_forward_curve(P, dependencies.instruments[id],
                                     dependencies.forward_curves[id])
              = MarketData_forward_curve(market_data,
                    dependencies.instruments[id],
                    dependencies.forward_curves[id])
        /\ \A id \in DOMAIN dependencies.vol_surfaces :
              LET forward == MarketData_forward_curve(market_data,
                                 dependencies.instruments[id], 5)
              IN  forward.ok =>
                    Prefetch_vol_surface(P, dependencies.instruments[id],
                        Val(forward), dependencies.vol_surfaces[id])
                    = MarketData_vol_surface(market_data,
                          dependencies.instruments[id], Val(forward),
                          dependencies.vol_surfaces[id])
        /\ \A id \in Ids :
              /\ Prefetch_spot(P, id) = MarketData_spot(market_data, id)
              /\ Prefetch_yield_curve(P, id) =
                    MarketData_yield_curve(market_data, id)
        /\ Prefetch_discount_date(P) = MarketData_discount_date(market_data)

\* The forwards alone: in a transaction of bumps that returned Ok(true),
\* followed by restore, on a record that declares a forward and a vol surface
\* for both instruments, the cached forwards are the ones the plain market
\* data constructs.
C25_ForwardsAfterRestore ==
    (/\ pc = "ready" /\ txn = "restored"
     /\ DOMAIN dependencies.forward_curves = InstIds
     /\ DOMAIN dependencies.vol_surfaces = InstIds)
    => \A id \in InstIds :
          Prefetch_forward_curve(P, dependencies.instruments[id],
                                 dependencies.forward_curves[id])
          = MarketData_forward_curve(market_data, dependencies.instruments[id],
                                     dependencies.forward_curves[id])

\* The market data a price call named by arg.context read.
PricedOn == IF arg.context = "MarketData" THEN market_data ELSE context

\* The missing-data error of kind item for id.
NotFound(ret, item, id) == ~ret.ok /\ ret.err = <<item, "not found:", id>>

\* C28: market-data forward construction and missing data.
\* MarketData.forward_curve(instrument, hwm) fails with a missing-data error
\* naming the kind and the id if the spot, the dividend stream or the borrow
\* curve is absent under the instrument's id, or the yield curve is absent
\* under the instrument's credit id, checked in that order; otherwise it
\* builds the forward from those four inputs and the spot date.  It never
\* modifies the market data.
C28_ForwardConstruction ==
    [][result'.op = "forward_curve" =>
        LET id == arg'.instrument.id
            credit_id == arg'.instrument.credit_id
            ret == result'.ret
        IN  /\ market_data' = market_data
            /\ IF id \notin DOMAIN market_data.spots
               THEN NotFound(ret, "Spot", id)
               ELSE IF id \notin DOMAIN market_data.dividends
               THEN NotFound(ret, "Dividends", id)
               ELSE IF id \notin DOMAIN market_data.borrow_curves
               THEN NotFound(ret, "Borrow curve", id)
               ELSE IF credit_id \notin DOMAIN market_data.yield_curves
               THEN NotFound(ret, "Yield curve for forward", credit_id)
               ELSE /\ ret.ok
                    /\ Val(ret).spot = market_data.spots[id]
                    /\ Val(ret).divs = market_data.dividends[id]
                    /\ Val(ret).borrow = market_data.borrow_curves[id]
                    /\ Val(ret).yield_curve = market_data.yield_curves[credit_id]
                    /\ Val(ret).spot_date = market_data.spot_date]_vars

\* A forward was built for an equity whose credit id is not its id.
C28_Witness ==
    /\ result.op = "forward_curve" /\ result.ret.ok
    /\ arg.instrument.id = "A" /\ arg.instrument.credit_id = "X"

\* Spot and yield curve both absent: the spot is the one reported.
C28_WitnessOrder ==
    /\ result.op = "forward_curve"
    /\ arg.instrument.id \notin DOMAIN market_data.spots
    /\ arg.instrument.credit_id \notin DOMAIN market_data.yield_curves
    /\ NotFound(result.ret, "Spot", arg.instrument.id)

\* C29: Currency and credit-entity price rule.  The price is 1.0 when the
\* context has no discount date, 1.0 when the discount date is the
\* instrument's settlement rule applied to the spot date, and otherwise the
\* df from the settlement-applied spot date to the discount date of the yield
\* curve keyed by the instrument's own id; a yield curve missing in the third
\* case is an error, and in the first two cases no yield curve is needed.
C29_UnitAssetPrice ==
    (result.op = "price" /\ arg.instrument.type \in {"Currency", "CreditEntity"})
    => LET id == arg.instrument.id
           pay_date == DateRule_apply(arg.instrument.settlement,
                                      PricedOn.spot_date)
       IN  IF PricedOn.discount_date = None THEN result.ret = Ok(One)
           ELSE IF PricedOn.discount_date = Some(pay_date)
           THEN result.ret = Ok(One)
           ELSE IF id \notin DOMAIN PricedOn.yield_curves
           THEN NotFound(result.ret, "Yield curve", id)
           ELSE \E discount_date \in PricedOn.discount_date :
                   result.ret = RateCurve_df(PricedOn.yield_curves[id],
                                             pay_date, discount_date)

\* A currency without a yield curve was priced at 1.0 on its pay date, on a
\* cache whose discount date was bumped to that date.
C29_Witness ==
    /\ result.op = "price" /\ arg.instrument.type = "Currency"
    /\ arg.context = "PricingContextPrefetch"
    /\ arg.instrument.id \notin DOMAIN context.yield_curves
    /\ context.discount_date = Some(arg.instrument.settlement + context.spot_date)
    /\ context.discount_date # market_data.discount_date
    /\ result.ret = Ok(One)

\* A credit entity was priced off its pay date by a bumped yield curve.
C29_WitnessDiscounted ==
    /\ result.op = "price" /\ arg.instrument.type = "CreditEntity"
    /\ arg.context = "PricingContextPrefetch"
    /\ result.ret.ok /\ result.ret # Ok(One)
    /\ context.yield_curves # market_data.yield_curves

\* C30: Equity price rule.  The price is context.spot(equity id) times
\* discount_from_spot with the equity's credit id; when the discount date is
\* absent or is the settlement rule applied to the spot date the price is the
\* spot exactly; a missing spot is returned as an error.
C30_EquityPrice ==
    (result.op = "price" /\ arg.instrument.type = "Equity")
    => LET id == arg.instrument.id
           credit_id == arg.instrument.credit_id
           pay_date == DateRule_apply(arg.instrument.settlement,
                                      PricedOn.spot_date)
           on_spot == PricedOn.discount_date \in {None, Some(pay_date)}
       IN  /\ id \notin DOMAIN PricedOn.spots => ~result.ret.ok
           /\ (id \notin DOMAIN PricedOn.spots /\ on_spot)
                 => NotFound(result.ret, "Spot", id)
           /\ (id \in DOMAIN PricedOn.spots /\ on_spot)
                 => result.ret = Ok(PricedOn.spots[id] * One)
           /\ (id \in DOMAIN PricedOn.spots /\ ~on_spot)
                 => IF credit_id \in DOMAIN PricedOn.yield_curves
                    THEN \E discount_date \in PricedOn.discount_date :
                           LET df == RateCurve_df(PricedOn.yield_curves[credit_id],
                                                  pay_date, discount_date)
                           IN  result.ret = Ok(PricedOn.spots[id] * Val(df))
                    ELSE NotFound(result.ret, "Yield curve", credit_id)

\* An equity was priced off its pay date on the cache: spot times a df that
\* is not 1.0, from the yield curve of a credit id that is not its id.
C30_Witness ==
    /\ result.op = "price" /\ arg.instrument.type = "Equity"
    /\ arg.context = "PricingContextPrefetch"
    /\ arg.instrument.id = "A" /\ arg.instrument.credit_id = "X"
    /\ result.ret.ok
    /\ result.ret # Ok(context.spots["A"] * One)

\* An equity was priced at its spot exactly, on its pay date.
C30_WitnessOnSpot ==
    /\ result.op = "price" /\ arg.instrument.type = "Equity"
    /\ PricedOn.discount_date = Some(arg.instrument.settlement + PricedOn.spot_date)
    /\ result.ret = Ok(PricedOn.spots[arg.instrument.id] * One)

\* The components of the constructed pricer whose own price is an error.
FailingComponents ==
    {i \in DOMAIN instruments :
        ~Priceable_price(instruments[i][2],
                         PricingContext("PricingContextPrefetch", P)).ok}

\* weight * price of the components from i on, every price being Ok.
RECURSIVE WeightedSum(_)
WeightedSum(i) ==
    IF i > Len(instruments) THEN 0
    ELSE instruments[i][1]
            * Val(Priceable_price(instruments[i][2],
                                  PricingContext("PricingContextPrefetch", P)))
         + WeightedSum(i + 1)

\* C21: pricer price is the weighted sum.  The component list of a
\* constructed pricer is the result of the instrument's fix() when that is
\* Some and otherwise the single pair (1.0, instrument); price() returns the
\* sum over that list of weight times the component's price against the
\* pricer's cache, and if a component's price is an error, that error.
C21_WeightedSum ==
    /\ (result.op = "new" /\ pc = "ready") =>
          instruments =
             IF Val(Instrument_fix(arg.instrument)) = None
             THEN <<<<1, arg.instrument>>>>
             ELSE CHOOSE f \in Val(Instrument_fix(arg.instrument)) : TRUE
    /\ result.op = "price" =>
          IF FailingComponents = {}
          THEN result.ret = Ok(WeightedSum(1))
          ELSE \E i \in FailingComponents :
                  result.ret = Priceable_price(instruments[i][2],
                                   PricingContext("PricingContextPrefetch", P))

\* A pricer of three fixed components with different weights returned their
\* weighted sum after a bump of the cache.
C21_Witness ==
    /\ result.op = "price" /\ result.ret.ok
    /\ Len(instruments) = 3
    /\ instruments[1][1] # instruments[2][1]
    /\ nbumps > 0
    /\ context # market_data
    /\ Val(result.ret) > 0

\* A component's price failed and price() returned the error.
C21_WitnessError ==
    /\ result.op = "price" /\ ~result.ret.ok
    /\ Len(instruments) = 3

\* C22: construction rejects non-priceable components.  The factory returns
\* an error naming the component's id, and no pricer, whenever a component
\* of the fixed component list has no priceable projection; every component
\* of a constructed pricer is priceable.
C22_RejectsUnpriceable ==
    /\ (/\ result.op = "new"
        /\ Instrument_fix(arg.instrument).ok
        /\ \E i \in DOMAIN fixed_instruments(arg.instrument) :
              as_priceable(fixed_instruments(arg.instrument)[i][2]) = None)
       => /\ pc = "failed"
          /\ instruments = <<>>
          /\ ~result.ret.ok
          /\ \E i \in DOMAIN fixed_instruments(arg.instrument) :
                /\ as_priceable(fixed_instruments(arg.instrument)[i][2]) = None
                /\ result.ret.err =
                      <<"Instrument", fixed_instruments(arg.instrument)[i][2].id,
                        "is not priceable">>
    /\ pc = "ready" =>
          \A i \in DOMAIN instruments : as_priceable(instruments[i][2]) # None

\* The factory rejected a fixed list with a component that is not priceable,
\* on market data from which the cache could have been built.
C22_Witness ==
    /\ result.op = "new" /\ pc = "failed"
    /\ arg.instrument.type = "Composite"
    /\ Instrument_fix(arg.instrument).ok
    /\ Len(fixed_instruments(arg.instrument)) = 3
    /\ result.ret.err = <<"Instrument", "U", "is not priceable">>
    /\ ~MissingData(market_data, dependencies)

\* C31: zero-coupon price rule.  The effective discount date is the
\* context's discount date when present and otherwise the zero's settlement
\* rule applied to the spot date; the price is 1.0 when the effective discount
\* date is the payment date, whether or not there is a yield curve, and
\* otherwise df(payment date, effective discount date) of the yield curve
\* keyed by the zero's credit id.
C31_ZeroCouponPrice ==
    (result.op = "price" /\ arg.instrument.type = "ZeroCoupon")
    => LET zero == arg.instrument
           effective ==
               IF PricedOn.discount_date = None
               THEN DateRule_apply(zero.settlement, PricedOn.spot_date)
               ELSE CHOOSE d \in PricedOn.discount_date : TRUE
       IN  IF effective = zero.payment_date THEN result.ret = Ok(One)
           ELSE IF zero.credit_id \notin DOMAIN PricedOn.yield_curves
           THEN NotFound(result.ret, "Yield curve", zero.credit_id)
           ELSE result.ret = RateCurve_df(PricedOn.yield_curves[zero.credit_id],
                                          zero.payment_date, effective)

\* A zero coupon was priced on the cache off its payment date, with the
\* bumped yield curve of its credit id.
C31_Witness ==
    /\ result.op = "price" /\ arg.instrument.type = "ZeroCoupon"
    /\ arg.context = "PricingContextPrefetch"
    /\ context.discount_date # None
    /\ context.yield_curves # market_data.yield_curves
    /\ result.ret.ok /\ result.ret # Ok(One)

\* A zero coupon without a yield curve was priced at 1.0 on its payment date.
C31_WitnessIdentity ==
    /\ result.op = "price" /\ arg.instrument.type = "ZeroCoupon"
    /\ arg.instrument.credit_id \notin DOMAIN PricedOn.yield_curves
    /\ result.ret = Ok(One)

\* C32: zero-coupon absent-discount-date equivalence.  The price under a
\* context with no discount date is the price under the otherwise identical
\* context whose discount date is the zero's settlement rule applied to the
\* spot date.
C32_AbsentDiscountDate ==
    (/\ result.op = "price" /\ arg.instrument.type = "ZeroCoupon"
     /\ PricedOn.discount_date = None)
    => LET settled == DateRule_apply(arg.instrument.settlement,
                                     PricedOn.spot_date)
           dated == [PricedOn EXCEPT !.discount_date = Some(settled)]
       IN  result.ret = ZeroCoupon_price(arg.instrument,
                                         PricingContext("MarketData", dated))

\* A zero coupon was priced without discount date, off its payment date.
C32_Witness ==
    /\ result.op = "price" /\ arg.instrument.type = "ZeroCoupon"
    /\ PricedOn.discount_date = None
    /\ arg.instrument.payment_date
          # arg.instrument.settlement + PricedOn.spot_date
    /\ result.ret.ok /\ result.ret # Ok(One)

\* C36: the requested yield-curve high-water mark stays within what was
\* declared.  The high-water mark an instrument passes to yield_curve during
\* price never exceeds the later of the high-water mark it declared for that
\* credit id in dependencies() and the context's own discount date, including
\* when the context has no discount date.
C36_RequestWithinDeclared ==
    result.op = "price" =>
        LET context_of == AsContext(arg.context)
            declared == declared_high_water_mark(arg.instrument,
                                                 market_data.spot_date)
            limit == IF PricedOn.discount_date = None THEN declared
                     ELSE Max(declared, CHOOSE d \in PricedOn.discount_date : TRUE)
        IN  \A requested \in yield_curve_high_water_mark(arg.instrument,
                                                         context_of) :
                requested <= limit

\* The same for Currency, Equity and CreditEntity alone.
C36_AssetsWithinDeclared ==
    (result.op = "price" /\ arg.instrument.type # "ZeroCoupon")
      => C36_RequestWithinDeclared

\* C37: a bump with a mismatched ledger fails before mutating.  Every bump
\* on the pricer given a ledger that is not a SavedPrefetch, and on a
\* MarketData given a ledger that is not a SavedData, returns a type-mismatch
\* error and leaves market data, discount date, cached artifacts and the
\* supplied ledger unchanged.
C37_BumpRejectsMismatch ==
    [][/\ (/\ result'.op \in AllBumpOps /\ arg'.instrument.id = ""
           /\ arg'.context = "SavedData")
          => /\ result'.ret =
                    Err(<<"Mismatching save space for bumped prefetch">>)
             /\ P' = P
             /\ md_save' = md_save /\ save' = save
             /\ market_data' = market_data
       /\ (/\ result'.op \in AllBumpOps /\ arg'.instrument.id = "market_data"
           /\ arg'.context = "SavedPrefetch")
          => /\ result'.ret =
                    Err(<<"Mismatching save space for bump market data">>)
             /\ market_data' = market_data
             /\ md_save' = md_save /\ save' = save
             /\ P' = P]_vars

\* The pricer refused a spot bump of an id it holds, handed a SavedData that
\* already has a snapshot.
C37_Witness ==
    /\ pc = "ready" /\ result.op = "bump_spot"
    /\ arg.instrument.id = "" /\ arg.context = "SavedData"
    /\ result.id \in DOMAIN context.spots
    /\ result.bump = 1
    /\ ~result.ret.ok
    /\ md_save.spots # EmptyMap

\* The plain market data refused a discount-date bump handed a SavedPrefetch.
C37_WitnessMarketData ==
    /\ result.op = "bump_discount_date"
    /\ arg.instrument.id = "market_data" /\ arg.context = "SavedPrefetch"
    /\ ~result.ret.ok

\* The ids of the five tables of a market data and of a SavedData.
KeySets(md) ==
    [t \in Tables |-> DOMAIN md[t]]

\* C38: key-set stability.  For one pricer used with ledgers from its own
\* new_saveable, no sequence of bumps, restores and clears adds or removes
\* an id in any of the inner market data's five tables or in the cache's
\* forward and vol tables, and the ids of each ledger snapshot table are a
\* subset of the ids of the corresponding pricer table.
C38_KeySetStability ==
    pc = "ready" =>
        /\ KeySets(context) = KeySets(origin.context)
        /\ DOMAIN forward_curves = DOMAIN origin.forward_curves
        /\ DOMAIN vol_surfaces = DOMAIN origin.vol_surfaces
        /\ \A t \in Tables : DOMAIN save.saved_data[t] \subseteq DOMAIN context[t]
        /\ DOMAIN save.forward_curves \subseteq DOMAIN forward_curves
        /\ DOMAIN save.vol_surfaces \subseteq DOMAIN vol_surfaces

\* After a bump of a raw slot, a restore and a bump of an id no table holds,
\* the ledger holds snapshots of a raw table and of the forwards.
C38_Witness ==
    /\ pc = "ready" /\ nbumps = MaxBumps
    /\ result.op = "bump_spot" /\ result.id \notin DOMAIN context.spots
    /\ save.saved_data.yield_curves # EmptyMap
    /\ save.forward_curves # EmptyMap

\* C35: refetch ordering when both flags are set.  refetch(id, true, true,
\* ledger) rebuilds the forward and then rebuilds the vol surface from the
\* forward rebuilt in that same call, while the ledger receives the forward
\* and the vol surface that were cached before the call; with neither flag
\* set it returns false and touches neither cache nor ledger.
C35_RefetchOrdering ==
    [][result'.op = "refetch" =>
        LET id == result'.id
            instrument == dependencies.instruments[id]
        IN  /\ (/\ arg'.bumped_forward /\ arg'.bumped_vol
                /\ result'.ret = Ok(TRUE) /\ id \in DOMAIN vol_surfaces)
               => /\ save'.forward_curves[id] = forward_curves[id]
                  /\ save'.vol_surfaces[id] = vol_surfaces[id]
                  /\ forward_curves'[id] =
                        Val(MarketData_forward_curve(context, instrument,
                                dependencies.forward_curves[id]))
                  /\ vol_surfaces'[id] =
                        Val(MarketData_vol_surface(context, instrument,
                                forward_curves'[id],
                                dependencies.vol_surfaces[id]))
            /\ (~arg'.bumped_forward /\ ~arg'.bumped_vol)
               => /\ result'.ret = Ok(FALSE)
                  /\ P' = P
                  /\ save' = save]_vars

\* A refetch with both flags replaced a forward that was not the one the
\* market data builds, and the sticky-delta vol surface holds the new one.
C35_Witness ==
    /\ pc = "ready" /\ result.op = "refetch"
    /\ arg.bumped_forward /\ arg.bumped_vol
    /\ result.ret = Ok(TRUE)
    /\ result.id \in DOMAIN vol_surfaces
    /\ save.forward_curves[result.id] # forward_curves[result.id]
    /\ vol_surfaces[result.id].forward = Some(forward_curves[result.id])

\* A refetch with neither flag returned false on an id without cached forward.
C35_WitnessNeither ==
    /\ pc = "ready" /\ result.op = "refetch"
    /\ ~arg.bumped_forward /\ ~arg.bumped_vol
    /\ result.id \notin DOMAIN forward_curves
    /\ save # SavedPrefetch_new

----------------------------------------------------------------------------
\* The components of the pricer that read a forward and a vol surface.
EuropeanComponents ==
    {instruments[i][2] : i \in {j \in DOMAIN instruments :
                                  instruments[j][2].type = "SpotStartingEuropean"}}

\* The error of find_cached_data, whatever the item and the id.
CacheMiss(ret) ==
    /\ ~ret.ok
    /\ Len(ret.err) = 3
    /\ ret.err[2] = "not found (incorrect dependencies?):"

C33_WitnessRestored ==
    /\ pc = "ready"
    /\ EuropeanComponents # {}
    /\ result.op = "price"
    /\ result.ret.ok
    /\ nbumps >= 1
    /\ txn = "restored"
    /\ P = origin

----------------------------------------------------------------------------
\* C34: a failed bump is recoverable.  When a bump on a fresh or cleared
\* ledger returns an error, whatever it had already applied, restore with
\* that ledger succeeds and gives back the raw slots, the discount date and
\* the cached forwards and vol surfaces of before the bump, and clear leaves
\* the ledger empty; the Restore and Clear steps the caller then takes do
\* exactly that.
C34_FailedBumpRecoverable ==
    [][ /\ (save = SavedPrefetch_new /\ result'.op \in BumpOps
            /\ ~result'.ret.ok) =>
              LET r == PricingContextPrefetch_restore(P', dependencies,
                           Saveable("SavedPrefetch", save'))
              IN  /\ r.ret.ok
                  /\ r.p = P
                  /\ SavedPrefetch_clear(save') = SavedPrefetch_new
        /\ (nbumps = 1 /\ result.op \in BumpOps /\ ~result.ret.ok
            /\ result'.op = "restore") =>
              (result'.ret.ok /\ P' = origin)
        /\ (nbumps = 1 /\ result.op = "restore" /\ result'.op = "clear") =>
              (P' = P /\ save' = SavedPrefetch_new) ]_vars

\* C34 witness: the first bump, of a spot the instrument did not declare,
\* failed after bumping the raw slot and recording it in the ledger.
C34_Witness ==
    /\ nbumps = 1
    /\ result.op = "bump_spot"
    /\ ~result.ret.ok
    /\ context.spots # origin.context.spots
    /\ save.saved_data.spots # EmptyMap

\* C34 witness: a yield bump failed after rebuilding one dependent forward.
C34_WitnessPartialYield ==
    /\ nbumps = 1
    /\ result.op = "bump_yield"
    /\ ~result.ret.ok
    /\ context.yield_curves # origin.context.yield_curves
    /\ forward_curves # origin.forward_curves
    /\ save.forward_curves # EmptyMap

\* C34 witness: the restore and clear after a failed first bump.
C34_WitnessRecovered ==
    /\ nbumps = 1
    /\ result.op = "clear"
    /\ txn = "bumping"
    /\ ~cyclic
    /\ P = origin
    /\ save = SavedPrefetch_new

====
